---------------------------- MODULE Spec2Model ----------------------------
(***************************************************************************)
(* A model of the C runtime-bug detector: the AST variable/pointer         *)
(* detector, the library/header detector, the CLI driver (analyzeDir,      *)
(* text fallback, printIssues, main) and the scope-stack heuristic.        *)
(*                                                                         *)
(* Source text is modelled as it is in the program: a file is a sequence   *)
(* of lines, a line is a sequence of one-character strings, and every      *)
(* regular expression of the source is translated into a regular           *)
(* expression value that a small matcher interprets.                       *)
(***************************************************************************)
EXTENDS Integers, Sequences, FiniteSets, TLC

(***************************************************************************)
(* Characters and JavaScript string primitives                             *)
(***************************************************************************)
LowerSeq ==
    <<"a","b","c","d","e","f","g","h","i","j","k","l","m",
      "n","o","p","q","r","s","t","u","v","w","x","y","z">>

UpperSeq ==
    <<"A","B","C","D","E","F","G","H","I","J","K","L","M",
      "N","O","P","Q","R","S","T","U","V","W","X","Y","Z">>

Range(s) == { s[i] : i \in 1..Len(s) }

LowerChars == Range(LowerSeq)

UpperChars == Range(UpperSeq)

DigitChars == {"0","1","2","3","4","5","6","7","8","9"}

\* \w of a JavaScript regular expression
WordChars == LowerChars \cup UpperChars \cup DigitChars \cup {"_"}

\* \s of a JavaScript regular expression (the members that occur in a line)
SpaceChars == {" ", "\t"}

\* [a-zA-Z_]
IdentStartChars == LowerChars \cup UpperChars \cup {"_"}

\* TRUE for every x; used as the guard of a loop step so that the value the
\* step computed is evaluated before the next step starts
Done(x) == x = x

\* F(x), with x evaluated once: the bound v is a value, not an expression
Once(x, F(_)) == CHOOSE r \in { F(v) : v \in {x} } : TRUE

Min2(a, b) == IF a <= b THEN a ELSE b

Max2(a, b) == IF a >= b THEN a ELSE b

\* String.prototype.slice(from, to) with 0-based, end-exclusive indices
Slice(s, from, to) ==
    LET f == Min2(Max2(from, 0), Len(s))
        t == Min2(Max2(to, 0), Len(s))
    IN  IF t <= f THEN << >> ELSE SubSeq(s, f + 1, t)

SliceFrom(s, from) == Slice(s, from, Len(s))

\* does sub occur in s at the 0-based index i
OccursAt(s, sub, i) ==
    /\ i >= 0
    /\ i + Len(sub) <= Len(s)
    /\ \A k \in 1..Len(sub) : s[i + k] = sub[k]

\* String.prototype.indexOf(sub, from): 0-based, -1 when absent
IndexOf(s, sub, from) ==
    LET hits == { i \in Max2(from, 0)..Len(s) : OccursAt(s, sub, i) }
    IN  IF hits = {} THEN -1 ELSE CHOOSE i \in hits : \A j \in hits : i <= j

\* String.prototype.lastIndexOf(sub)
LastIndexOf(s, sub) ==
    LET hits == { i \in 0..Len(s) : OccursAt(s, sub, i) }
    IN  IF hits = {} THEN -1 ELSE CHOOSE i \in hits : \A j \in hits : i >= j

\* String.prototype.includes(sub)
Includes(s, sub) == IndexOf(s, sub, 0) >= 0

StartsWith(s, sub) == OccursAt(s, sub, 0)

EndsWith(s, sub) == OccursAt(s, sub, Len(s) - Len(sub))

RECURSIVE TrimStart(_)
TrimStart(s) ==
    IF s # << >> /\ Head(s) \in SpaceChars THEN TrimStart(Tail(s)) ELSE s

RECURSIVE TrimEnd(_)
TrimEnd(s) ==
    IF s # << >> /\ s[Len(s)] \in SpaceChars
    THEN TrimEnd(SubSeq(s, 1, Len(s) - 1))
    ELSE s

\* String.prototype.trim()
Trim(s) == TrimEnd(TrimStart(s))

ToLowerChar(c) ==
    IF c \in UpperChars
    THEN LowerSeq[CHOOSE i \in 1..Len(UpperSeq) : UpperSeq[i] = c]
    ELSE c

\* String.prototype.toLowerCase()
ToLowerCase(s) == [i \in 1..Len(s) |-> ToLowerChar(s[i])]

\* number of occurrences of the character c: (s.match(/c/g) || []).length
CountChar(s, c) == Cardinality({ i \in 1..Len(s) : s[i] = c })

(***************************************************************************)
(* Regular expressions.  A regular expression is a record; Ends(re, s, i)  *)
(* is the set of 0-based positions at which a match of re that starts at   *)
(* position i of s can end.  Test(re, s) is RegExp.prototype.test, and     *)
(* FirstStart(re, s) the index of the leftmost match.                      *)
(***************************************************************************)
Chr(set) == [t |-> "chr", set |-> set]

NotChr(set) == [t |-> "not", set |-> set]

AnyChr == [t |-> "not", set |-> {}]

Cat(rs) == [t |-> "cat", rs |-> rs]

Alt(rs) == [t |-> "alt", rs |-> rs]

Star(r) == [t |-> "star", r |-> r]

Plus(r) == [t |-> "cat", rs |-> <<r, [t |-> "star", r |-> r]>>]

Opt(r) == [t |-> "alt", rs |-> <<r, [t |-> "cat", rs |-> << >>]>>]

Bol == [t |-> "bol"]

Eol == [t |-> "eol"]

WordB == [t |-> "wb"]

Lit(chars) == [t |-> "cat", rs |-> [i \in 1..Len(chars) |-> Chr({chars[i]})]]

ReSpace == Chr(SpaceChars)

ReWord == Chr(WordChars)

IsWordAt(s, i) == i >= 1 /\ i <= Len(s) /\ s[i] \in WordChars

RECURSIVE Ends(_, _, _)
RECURSIVE CatEnds(_, _, _, _)
RECURSIVE StarEnds(_, _, _, _)
Ends(re, s, i) ==
    CASE re.t = "chr" ->
            IF i < Len(s) /\ s[i + 1] \in re.set THEN {i + 1} ELSE {}
      [] re.t = "not" ->
            IF i < Len(s) /\ s[i + 1] \notin re.set THEN {i + 1} ELSE {}
      [] re.t = "bol" -> IF i = 0 THEN {i} ELSE {}
      [] re.t = "eol" -> IF i = Len(s) THEN {i} ELSE {}
      [] re.t = "wb"  -> IF IsWordAt(s, i) # IsWordAt(s, i + 1) THEN {i} ELSE {}
      [] re.t = "cat" -> CatEnds(re.rs, s, {i}, 1)
      [] re.t = "alt" -> UNION { Ends(re.rs[k], s, i) : k \in 1..Len(re.rs) }
      [] re.t = "star" -> StarEnds(re.r, s, {i}, {i})

CatEnds(rs, s, from, k) ==
    IF k > Len(rs) \/ from = {}
    THEN from
    ELSE CatEnds(rs, s, UNION { Ends(rs[k], s, j) : j \in from }, k + 1)

StarEnds(r, s, frontier, acc) ==
    LET new == (UNION { Ends(r, s, j) : j \in frontier }) \ acc
    IN  IF new = {} THEN acc ELSE StarEnds(r, s, new, acc \cup new)

MatchStarts(re, s) == { i \in 0..Len(s) : Ends(re, s, i) # {} }

\* RegExp.prototype.test(s)
Test(re, s) == MatchStarts(re, s) # {}

\* index of the leftmost match, -1 when there is none
FirstStart(re, s) ==
    LET starts == MatchStarts(re, s)
    IN  IF starts = {} THEN -1 ELSE CHOOSE i \in starts : \A j \in starts : i <= j

(***************************************************************************)
(* Source files.  A file is a path and a sequence of lines; a line carries *)
(* its text and what the structured parser (core/ast_parser, which is not  *)
(* part of the sources at hand) extracts from it: include directives,      *)
(* calls, declarations, identifier occurrences and dereference sites, each *)
(* with its 0-based column.  Rows are the 0-based line indices.            *)
(***************************************************************************)
Line(kind, fn, text, incl, calls, decls, idents, derefs) ==
    [kind |-> kind, fn |-> fn, text |-> text, malformed |-> FALSE,
     incl |-> incl, calls |-> calls, decls |-> decls, idents |-> idents,
     derefs |-> derefs, format |-> << >>]

IncludeLine(text, header, sys) ==
    Line("include", "", text,
         <<[headerName |-> header, isSystemHeader |-> sys, column |-> 0]>>,
         << >>, << >>, << >>, << >>)

\* a statement or declaration line
CodeLine(text, calls, decls, idents, derefs) ==
    Line("stmt", "", text, << >>, calls, decls, idents, derefs)

\* the line that opens the body of function fn; decls are its parameters
FunctionLine(fn, text, decls, idents) ==
    Line("fn_open", fn, text, << >>, << >>, decls, idents, << >>)

\* struct Tag {
StructLine(text) == Line("struct_open", "", text, << >>, << >>, << >>, << >>, << >>)

\* } or };
CloseLine(kind, text) == Line(kind, "", text, << >>, << >>, << >>, << >>, << >>)

\* a line the structured parser rejects
BadLine(text) ==
    [Line("stmt", "", text, << >>, << >>, << >>, << >>, << >>)
        EXCEPT !.malformed = TRUE]

Decl(name, col, isPointer, isInitialized, isParameter) ==
    [name |-> name, column |-> col, isPointer |-> isPointer,
     isInitialized |-> isInitialized, isParameter |-> isParameter]

\* an identifier occurrence; access says what the C statement does with the
\* variable there: "decl", "read" or "write" (left operand of an assignment)
Ident(name, col, access) == [name |-> name, column |-> col, access |-> access]

\* an occurrence as the operand of *, -> or [...]
Deref(name, col) == [name |-> name, column |-> col]

Call(name, col) == [name |-> name, column |-> col]

\* a line with one call of printf or scanf at column col: the number of
\* conversion specifiers of its format string (%% is none) and the number of
\* arguments after the format
FormatLine(text, fn, col, specifiers, arguments) ==
    [Line("stmt", "", text, << >>, <<Call(fn, col)>>, << >>, << >>, << >>)
        EXCEPT !.format = <<[fn |-> fn, specifiers |-> specifiers,
                             arguments |-> arguments]>>]

\* all sequences over S of length 1..n
SeqsUpTo(S, n) == UNION { [1..k -> S] : k \in 1..n }

\* sourceCode.split(/\r?\n/): the texts of the lines
SourceLines(lines) == [i \in 1..Len(lines) |-> lines[i].text]

RECURSIVE Flatten(_)
Flatten(ss) == IF ss = << >> THEN << >> ELSE Head(ss) \o Flatten(Tail(ss))

\* the items of field f of every line, each with its row
WithRows(items, row) ==
    [k \in 1..Len(items) |-> [item |-> items[k], row |-> row]]

\* CASTParser.parse: fails on syntax the grammar does not support
CASTParser_parseThrows(lines) == \E i \in 1..Len(lines) : lines[i].malformed

CASTParser_extractIncludeDirectives(lines) ==
    Flatten([i \in 1..Len(lines) |-> WithRows(lines[i].incl, i - 1)])

CASTParser_extractFunctionCalls(lines) ==
    Flatten([i \in 1..Len(lines) |-> WithRows(lines[i].calls, i - 1)])

\* the function whose body holds line i ("global" outside every body)
ScopeAt(lines, i) ==
    LET opens == { j \in 1..i : lines[j].kind = "fn_open" }
        last == CHOOSE j \in opens : \A m \in opens : m <= j
    IN  IF opens = {} \/ \E j \in (last + 1)..i : lines[j].kind = "block_close"
        THEN "global"
        ELSE lines[last].fn

\* is line i inside the body of a struct specifier
InStructBody(lines, i) ==
    LET opens == { j \in 1..(i - 1) : lines[j].kind = "struct_open" }
        last == CHOOSE j \in opens : \A m \in opens : m <= j
    IN  /\ opens # {}
        /\ ~ \E j \in (last + 1)..i : lines[j].kind = "struct_close"

\* CASTParser.extractVariableDeclarations: one record per declaration site,
\* built anew by every call
CASTParser_extractVariableDeclarations(lines) ==
    Flatten([i \in 1..Len(lines) |->
        [k \in 1..Len(lines[i].decls) |->
            [name |-> lines[i].decls[k].name,
             isPointer |-> lines[i].decls[k].isPointer,
             isInitialized |-> lines[i].decls[k].isInitialized,
             isParameter |-> lines[i].decls[k].isParameter,
             scope |-> ScopeAt(lines, i),
             position |-> [row |-> i - 1, column |-> lines[i].decls[k].column]]]])

PositionsOf(items, name, row) ==
    LET named == SelectSeq(items, LAMBDA it : it.name = name)
    IN  [k \in 1..Len(named) |-> [row |-> row, column |-> named[k].column]]

\* CASTParser.findVariableUsages: every identifier occurrence of the name in
\* the file, whatever its scope, in source order
CASTParser_findVariableUsages(lines, name) ==
    Flatten([i \in 1..Len(lines) |-> PositionsOf(lines[i].idents, name, i - 1)])

\* CASTParser.findPointerDereferences: every occurrence of the name as the
\* operand of *, -> or [...]
CASTParser_findPointerDereferences(lines, name) ==
    Flatten([i \in 1..Len(lines) |-> PositionsOf(lines[i].derefs, name, i - 1)])

P_main == <<"m","a","i","n",".","c">>

(***************************************************************************)
(* Library / header detector (StandaloneASTLibraryDetector)                *)
(***************************************************************************)
H_stdio == <<"s","t","d","i","o",".","h">>

H_stdlib == <<"s","t","d","l","i","b",".","h">>

H_string == <<"s","t","r","i","n","g",".","h">>

H_math == <<"m","a","t","h",".","h">>

H_ctype == <<"c","t","y","p","e",".","h">>

H_time == <<"t","i","m","e",".","h">>

H_assert == <<"a","s","s","e","r","t",".","h">>

H_limits == <<"l","i","m","i","t","s",".","h">>

H_float == <<"f","l","o","a","t",".","h">>

H_stdarg == <<"s","t","d","a","r","g",".","h">>

H_setjmp == <<"s","e","t","j","m","p",".","h">>

H_signal == <<"s","i","g","n","a","l",".","h">>

H_errno == <<"e","r","r","n","o",".","h">>

H_locale == <<"l","o","c","a","l","e",".","h">>

H_stddef == <<"s","t","d","d","e","f",".","h">>

H_stdint == <<"s","t","d","i","n","t",".","h">>

H_stdbool == <<"s","t","d","b","o","o","l",".","h">>

H_inttypes == <<"i","n","t","t","y","p","e","s",".","h">>

H_wchar == <<"w","c","h","a","r",".","h">>

H_wctype == <<"w","c","t","y","p","e",".","h">>

H_iso646 == <<"i","s","o","6","4","6",".","h">>

H_complex == <<"c","o","m","p","l","e","x",".","h">>

H_fenv == <<"f","e","n","v",".","h">>

H_tgmath == <<"t","g","m","a","t","h",".","h">>

StdioFunctions ==
    {"printf", "scanf", "fprintf", "fscanf", "sprintf", "sscanf", "fopen",
     "fclose", "fread", "fwrite", "fgets", "fputs", "getchar", "putchar",
     "fgetc", "fputc", "fseek", "ftell", "rewind", "feof", "ferror", "perror"}

StdlibFunctions ==
    {"malloc", "calloc", "realloc", "free", "exit", "abort", "atexit", "atoi",
     "atof", "atol", "strtol", "strtod", "rand", "srand", "system", "getenv",
     "qsort", "bsearch", "abs", "labs", "div", "ldiv"}

StringFunctions ==
    {"strlen", "strcpy", "strncpy", "strcat", "strncat", "strcmp", "strncmp",
     "strchr", "strrchr", "strstr", "strtok", "memcpy", "memmove", "memcmp",
     "memchr", "memset"}

MathFunctions ==
    {"sin", "cos", "tan", "asin", "acos", "atan", "atan2", "sinh", "cosh",
     "tanh", "exp", "log", "log10", "pow", "sqrt", "ceil", "floor", "fabs",
     "ldexp", "frexp", "modf", "fmod"}

CtypeFunctions ==
    {"isalpha", "isdigit", "isalnum", "isspace", "islower", "isupper",
     "isprint", "iscntrl", "ispunct", "isxdigit", "tolower", "toupper"}

TimeFunctions ==
    {"time", "clock", "ctime", "asctime", "localtime", "gmtime", "mktime",
     "strftime", "difftime"}

AssertFunctions == {"assert"}

StdargFunctions == {"va_start", "va_arg", "va_end", "va_copy"}

SetjmpFunctions == {"setjmp", "longjmp"}

SignalFunctions == {"signal", "raise"}

LocaleFunctions == {"setlocale", "localeconv"}

\* the own keys of the table
TableNames ==
    StdioFunctions \cup StdlibFunctions \cup StringFunctions \cup MathFunctions
    \cup CtypeFunctions \cup TimeFunctions \cup AssertFunctions
    \cup StdargFunctions \cup SetjmpFunctions \cup SignalFunctions
    \cup LocaleFunctions

\* The table is an object literal, so a property read that misses the own
\* keys continues along the prototype chain: these names of Object.prototype
\* yield a value that is truthy and is no array.
ObjectPrototypeNames ==
    {"constructor", "toString", "toLocaleString", "valueOf", "hasOwnProperty",
     "isPrototypeOf", "propertyIsEnumerable", "__proto__",
     "__defineGetter__", "__defineSetter__", "__lookupGetter__",
     "__lookupSetter__"}

\* STANDARD_LIBRARY_FUNCTIONS[name]: the header list of an own key, an
\* inherited member, or undefined
STANDARD_LIBRARY_FUNCTIONS(name) ==
    CASE name \in StdioFunctions  -> [kind |-> "array", headers |-> <<H_stdio>>]
      [] name \in StdlibFunctions -> [kind |-> "array", headers |-> <<H_stdlib>>]
      [] name \in StringFunctions -> [kind |-> "array", headers |-> <<H_string>>]
      [] name \in MathFunctions   -> [kind |-> "array", headers |-> <<H_math>>]
      [] name \in CtypeFunctions  -> [kind |-> "array", headers |-> <<H_ctype>>]
      [] name \in TimeFunctions   -> [kind |-> "array", headers |-> <<H_time>>]
      [] name \in AssertFunctions -> [kind |-> "array", headers |-> <<H_assert>>]
      [] name \in StdargFunctions -> [kind |-> "array", headers |-> <<H_stdarg>>]
      [] name \in SetjmpFunctions -> [kind |-> "array", headers |-> <<H_setjmp>>]
      [] name \in SignalFunctions -> [kind |-> "array", headers |-> <<H_signal>>]
      [] name \in LocaleFunctions -> [kind |-> "array", headers |-> <<H_locale>>]
      [] name \in ObjectPrototypeNames -> [kind |-> "inherited", headers |-> << >>]
      [] OTHER -> [kind |-> "undefined", headers |-> << >>]

\* an issue as a detector builds it; message keeps the parts of the text
Message(kind, fn, name, headers) ==
    [kind |-> kind, fn |-> fn, name |-> name, headers |-> headers]

Issue(file, line, column, category, message, severity, codeLine) ==
    [file |-> file, line |-> line, column |-> column, category |-> category,
     message |-> message, severity |-> severity, codeLine |-> codeLine]

\* sourceLines[row] || ''
LineOrEmpty(sourceLines, row) ==
    IF row + 1 \in 1..Len(sourceLines) THEN sourceLines[row + 1] ELSE << >>

HeaderIssue(filePath, sourceLines, call, requiredHeaders) ==
    Issue(filePath, call.row + 1, call.item.column, "Header",
          Message("needsHeader", call.item.name, << >>, requiredHeaders),
          1, LineOrEmpty(sourceLines, call.row))

\* the loop over the calls; a TypeError (requiredHeaders.some is not a
\* function) leaves the loop for the catch clause, which keeps the issues
\* pushed so far
RECURSIVE LibCheckCalls(_, _, _, _, _, _)
LibCheckCalls(filePath, sourceLines, includedHeaders, functionCalls, k, issues) ==
    IF k > Len(functionCalls)
    THEN issues
    ELSE LET call == functionCalls[k]
             required == STANDARD_LIBRARY_FUNCTIONS(call.item.name)
         IN  CASE required.kind = "undefined" ->
                    LibCheckCalls(filePath, sourceLines, includedHeaders,
                                  functionCalls, k + 1, issues)
               [] required.kind = "inherited" -> issues
               [] required.kind = "array" ->
                    LET hasRequiredHeader ==
                            \E h \in 1..Len(required.headers) :
                                required.headers[h] \in includedHeaders
                    IN  LibCheckCalls(filePath, sourceLines, includedHeaders,
                            functionCalls, k + 1,
                            IF hasRequiredHeader
                            THEN issues
                            ELSE Append(issues,
                                    HeaderIssue(filePath, sourceLines, call,
                                                required.headers)))

\* StandaloneASTLibraryDetector.analyzeFile
LibAnalyzeFile(filePath, lines) ==
    IF CASTParser_parseThrows(lines)
    THEN << >>
    ELSE LET includes == CASTParser_extractIncludeDirectives(lines)
             includedHeaders ==
                 { includes[k].item.headerName : k \in 1..Len(includes) }
         IN  LibCheckCalls(filePath, SourceLines(lines), includedHeaders,
                           CASTParser_extractFunctionCalls(lines), 1, << >>)

\* the whitelist, in the insertion order of the Set
standardHeaders ==
    <<H_stdio, H_stdlib, H_string, H_math, H_ctype,
      H_time, H_assert, H_limits, H_float, H_stdarg,
      H_setjmp, H_signal, H_errno, H_locale, H_stddef,
      H_stdint, H_stdbool, H_inttypes, H_wchar, H_wctype,
      H_iso646, H_complex, H_fenv, H_tgmath>>

Min3(a, b, c) == Min2(a, Min2(b, c))

\* a row computed without the term matrix[i - 1][j] + 1
RECURSIVE LevRow_NoDeletion(_, _, _, _, _)
LevRow_NoDeletion(str1, ch, prev, cur, j) ==
    IF j > Len(str1)
    THEN cur
    ELSE LET v == IF ch = str1[j]
                  THEN prev[j]
                  ELSE Min2(prev[j] + 1, cur[j] + 1)
             row == Append(cur, v)
         IN  IF Done(row) THEN LevRow_NoDeletion(str1, ch, prev, row, j + 1) ELSE << >>

\* one row of the matrix: cur holds matrix[i][0..j-1], prev is matrix[i-1]
RECURSIVE LevRow(_, _, _, _, _)
LevRow(str1, ch, prev, cur, j) ==
    IF j > Len(str1)
    THEN cur
    ELSE LET v == IF ch = str1[j]
                  THEN prev[j]
                  ELSE Min3(prev[j] + 1, cur[j] + 1, prev[j + 1] + 1)
             row == Append(cur, v)
         IN  IF Done(row) THEN LevRow(str1, ch, prev, row, j + 1) ELSE << >>

RECURSIVE LevRows(_, _, _, _)
LevRows(str1, str2, prev, i) ==
    IF i > Len(str2)
    THEN prev
    ELSE LET row == LevRow(str1, str2[i], prev, <<i>>, 1)
         IN  IF Done(row) THEN LevRows(str1, str2, row, i + 1) ELSE << >>

\* StandaloneASTLibraryDetector.levenshteinDistance
levenshteinDistance(str1, str2) ==
    LevRows(str1, str2, [j \in 1..(Len(str1) + 1) |-> j - 1], 1)[Len(str1) + 1]

\* the loop of suggestCorrectHeader; best is << >> (null, distance Infinity)
\* or <<[match, distance]>>
RECURSIVE SuggestLoop(_, _, _, _)
SuggestLoop(lowerHeader, headers, k, best) ==
    IF k > Len(headers)
    THEN best
    ELSE LET distance ==
                 levenshteinDistance(lowerHeader, ToLowerCase(headers[k]))
             better == (best = << >> \/ distance < best[1].distance)
                       /\ distance <= 2
             next == IF better
                     THEN <<[match |-> headers[k], distance |-> distance]>>
                     ELSE best
         IN  IF Done(next)
             THEN SuggestLoop(lowerHeader, headers, k + 1, next)
             ELSE << >>

\* suggestCorrectHeader with "distance <= bestDistance": the last entry at the
\* minimum distance wins
RECURSIVE SuggestLoopLastWins(_, _, _, _)
SuggestLoopLastWins(lowerHeader, headers, k, best) ==
    IF k > Len(headers)
    THEN best
    ELSE LET distance ==
                 levenshteinDistance(lowerHeader, ToLowerCase(headers[k]))
             better == (best = << >> \/ distance <= best[1].distance)
                       /\ distance <= 2
             next == IF better
                     THEN <<[match |-> headers[k], distance |-> distance]>>
                     ELSE best
         IN  IF Done(next)
             THEN SuggestLoopLastWins(lowerHeader, headers, k + 1, next)
             ELSE << >>

suggestCorrectHeader_LastWins(headerName, headers) ==
    LET best == SuggestLoopLastWins(ToLowerCase(headerName), headers, 1, << >>)
    IN  IF best = << >> THEN << >> ELSE <<best[1].match>>

\* StandaloneASTLibraryDetector.suggestCorrectHeader: << >> for null
suggestCorrectHeader(headerName, headers) ==
    LET best == SuggestLoop(ToLowerCase(headerName), headers, 1, << >>)
    IN  IF best = << >> THEN << >> ELSE <<best[1].match>>

RECURSIVE SpellLoop(_, _, _, _, _)
SpellLoop(filePath, sourceLines, includes, k, issues) ==
    IF k > Len(includes)
    THEN issues
    ELSE LET include == includes[k]
             flagged == include.item.isSystemHeader
                        /\ include.item.headerName \notin Range(standardHeaders)
             suggestion ==
                 suggestCorrectHeader(include.item.headerName, standardHeaders)
         IN  SpellLoop(filePath, sourceLines, includes, k + 1,
                 IF flagged
                 THEN Append(issues,
                         Issue(filePath, include.row + 1, include.item.column,
                               "HeaderSpelling",
                               Message("suspiciousHeader", "",
                                       include.item.headerName, suggestion),
                               2, LineOrEmpty(sourceLines, include.row)))
                 ELSE issues)

\* StandaloneASTLibraryDetector.checkHeaderSpelling
checkHeaderSpelling(filePath, lines) ==
    IF CASTParser_parseThrows(lines)
    THEN << >>
    ELSE SpellLoop(filePath, SourceLines(lines),
                   CASTParser_extractIncludeDirectives(lines), 1, << >>)

(***************************************************************************)
(* Variable / pointer detector (StandaloneASTVariableDetector)             *)
(***************************************************************************)
\* groupVariablesByScope and the two loops over it: the declarations in the
\* order analyzeFile visits them (scopes in order of first appearance)
GroupedByScope(declarations) ==
    Flatten([f \in 1..Len(declarations) |->
        IF \E j \in 1..(f - 1) : declarations[j].scope = declarations[f].scope
        THEN << >>
        ELSE SelectSeq(declarations,
                       LAMBDA d : d.scope = declarations[f].scope)])

\* /^(=|[\+\-\*\/\%]?=)/
ReAssignmentOperator ==
    Cat(<<Bol, Alt(<<Lit(<<"=">>),
                     Cat(<<Opt(Chr({"+", "-", "*", "/", "%"})), Lit(<<"=">>)>>)>>)>>)

\* StandaloneASTVariableDetector.isAssignmentTarget
isAssignmentTarget(line, variableName, column) ==
    LET varIndex == IndexOf(line, variableName, column)
        afterVar == Trim(SliceFrom(line, varIndex + Len(variableName)))
    IN  IF varIndex = -1 THEN FALSE ELSE Test(ReAssignmentOperator, afterVar)

\* /=\s*(NULL|0)\b/
ReNullInitializer ==
    Cat(<<Lit(<<"=">>), Star(ReSpace),
          Alt(<<Lit(<<"N","U","L","L">>), Lit(<<"0">>)>>), WordB>>)

\* StandaloneASTVariableDetector.isNullInitialized
isNullInitialized(line) == Test(ReNullInitializer, line)

\* StandaloneASTVariableDetector.isStructField
isStructField(sourceLines, lineNumber) ==
    \E i \in Max2(0, lineNumber - 5)..(lineNumber - 1) :
        LET line == Trim(sourceLines[i + 1])
        IN  \/ Includes(line, <<"t","y","p","e","d","e","f"," ","s","t","r","u","c","t">>)
            \/ Includes(line, <<"s","t","r","u","c","t"," ">>)

\* an issue located at the declaration instead of the use
UninitializedIssue_AtDeclaration(filePath, sourceLines, variable, usage) ==
    Issue(filePath, variable.position.row + 1, variable.position.column,
          "Uninitialized",
          Message("usedBeforeInitialization", "", variable.name, << >>),
          1, LineOrEmpty(sourceLines, variable.position.row))

UninitializedIssue(filePath, sourceLines, variable, usage) ==
    Issue(filePath, usage.row + 1, usage.column, "Uninitialized",
          Message("usedBeforeInitialization", "", variable.name, << >>),
          1, LineOrEmpty(sourceLines, usage.row))

WildPointerIssue(filePath, sourceLines, variable, deref) ==
    Issue(filePath, deref.row + 1, deref.column, "NullPointer",
          Message("wildPointerDereference", "", variable.name, << >>),
          0, LineOrEmpty(sourceLines, deref.row))

NullPointerIssue(filePath, sourceLines, pointer, deref) ==
    Issue(filePath, deref.row + 1, deref.column, "NullPointer",
          Message("nullPointerDereference", "", pointer.name, << >>),
          0, LineOrEmpty(sourceLines, deref.row))

\* the loop over usages; st = [issues, isInitialized]
\* a usage loop in which a read takes the initialization back
RECURSIVE UsageLoop_ReadResets(_, _, _, _, _, _)
UsageLoop_ReadResets(filePath, sourceLines, variable, usages, k, st) ==
    IF k > Len(usages)
    THEN st
    ELSE LET usage == usages[k]
             next ==
                 IF usage.row = variable.position.row
                 THEN st
                 ELSE IF isAssignmentTarget(sourceLines[usage.row + 1],
                                            variable.name, usage.column)
                 THEN [st EXCEPT !.isInitialized = TRUE]
                 ELSE [st EXCEPT !.isInitialized = FALSE,
                                 !.issues =
                          Append(@, UninitializedIssue(filePath, sourceLines,
                                                       variable, usage))]
         IN  IF Done(next)
             THEN UsageLoop_ReadResets(filePath, sourceLines, variable, usages,
                                       k + 1, next)
             ELSE st

RECURSIVE UsageLoop(_, _, _, _, _, _)
UsageLoop(filePath, sourceLines, variable, usages, k, st) ==
    IF k > Len(usages)
    THEN st
    ELSE LET usage == usages[k]
             next ==
                 IF usage.row = variable.position.row
                 THEN st
                 ELSE IF isAssignmentTarget(sourceLines[usage.row + 1],
                                            variable.name, usage.column)
                 THEN [st EXCEPT !.isInitialized = TRUE]
                 ELSE [st EXCEPT !.issues =
                          Append(@, UninitializedIssue(filePath, sourceLines,
                                                       variable, usage))]
         IN  IF Done(next)
             THEN UsageLoop(filePath, sourceLines, variable, usages, k + 1, next)
             ELSE st

\* the loop over dereferences, run after the loop over usages
RECURSIVE DerefLoop(_, _, _, _, _, _)
DerefLoop(filePath, sourceLines, variable, dereferences, k, st) ==
    IF k > Len(dereferences)
    THEN st
    ELSE LET deref == dereferences[k]
             next ==
                 IF deref.row = variable.position.row
                 THEN st
                 ELSE IF variable.isPointer /\ ~ st.isInitialized
                 THEN [st EXCEPT !.issues =
                          Append(@, WildPointerIssue(filePath, sourceLines,
                                                     variable, deref))]
                 ELSE st
         IN  IF Done(next)
             THEN DerefLoop(filePath, sourceLines, variable, dereferences,
                            k + 1, next)
             ELSE st

\* StandaloneASTVariableDetector.checkVariableUsage: the issues it returns
\* and the value it leaves in variable.isInitialized
checkVariableUsage(lines, variable, filePath) ==
    LET sourceLines == SourceLines(lines)
        start == [issues |-> << >>, isInitialized |-> variable.isInitialized]
    IN  IF variable.isInitialized \/ variable.isParameter
        THEN start
        ELSE IF isStructField(sourceLines, variable.position.row)
        THEN start
        ELSE DerefLoop(filePath, sourceLines, variable,
                 CASTParser_findPointerDereferences(lines, variable.name), 1,
                 UsageLoop(filePath, sourceLines, variable,
                     CASTParser_findVariableUsages(lines, variable.name), 1,
                     start))

\* the issues of one null pointer: a dereference on a later line
NullDerefIssues(filePath, sourceLines, pointer, dereferences) ==
    LET later == SelectSeq(dereferences,
                           LAMBDA deref : deref.row > pointer.position.row)
    IN  [k \in 1..Len(later) |->
            NullPointerIssue(filePath, sourceLines, pointer, later[k])]

\* StandaloneASTVariableDetector.checkNullPointerDereference
checkNullPointerDereference(lines, filePath) ==
    LET sourceLines == SourceLines(lines)
        declarations == CASTParser_extractVariableDeclarations(lines)
        nullPointers ==
            SelectSeq(declarations,
                LAMBDA decl : decl.isPointer
                    /\ isNullInitialized(sourceLines[decl.position.row + 1]))
    IN  Flatten([k \in 1..Len(nullPointers) |->
            NullDerefIssues(filePath, sourceLines, nullPointers[k],
                CASTParser_findPointerDereferences(lines, nullPointers[k].name))])

\* a detector that keeps the declaration records of its previous call
AnalyzeFileDeclarations_Cached(lines, earlier) ==
    IF earlier # << >>
    THEN earlier
    ELSE GroupedByScope(CASTParser_extractVariableDeclarations(lines))

\* the declarations analyzeFile works on: extracted from the tree it has
\* just parsed, never the records of an earlier call
AnalyzeFileDeclarations(lines, earlier) ==
    GroupedByScope(CASTParser_extractVariableDeclarations(lines))

\* the loop of analyzeFile over the grouped declarations;
\* st = [issues, declarations], declarations[k].isInitialized as left by
\* checkVariableUsage
RECURSIVE VariableLoop(_, _, _, _)
VariableLoop(lines, filePath, k, st) ==
    IF k > Len(st.declarations)
    THEN st
    ELSE LET r == checkVariableUsage(lines, st.declarations[k], filePath)
             next == [issues |-> st.issues \o r.issues,
                      declarations |->
                          [st.declarations EXCEPT
                              ![k].isInitialized = r.isInitialized]]
         IN  IF Done(next)
             THEN VariableLoop(lines, filePath, k + 1, next)
             ELSE st

\* StandaloneASTVariableDetector.analyzeFile: the issues returned and the
\* declaration records as the call leaves them
VarAnalyzeFile(filePath, lines, earlier) ==
    IF CASTParser_parseThrows(lines)
    THEN [issues |-> << >>, declarations |-> earlier]
    ELSE LET st == VariableLoop(lines, filePath, 1,
                       [issues |-> << >>,
                        declarations |-> AnalyzeFileDeclarations(lines, earlier)])
         IN  [issues |-> st.issues \o checkNullPointerDereference(lines, filePath),
              declarations |-> st.declarations]

(***************************************************************************)
(* Inputs of the variable detector                                         *)
(***************************************************************************)
N_x == <<"x">>
N_p == <<"p">>
N_v == <<"v">>
N_n == <<"n">>

\* int main() {
V_main_open == FunctionLine("main", <<"i","n","t"," ","m","a","i","n","(",")"," ","{">>, << >>, << >>)

\* void f() {
V_f_open == FunctionLine("f", <<"v","o","i","d"," ","f","(",")"," ","{">>, << >>, << >>)

\* int f(int n) {
V_f_param_open ==
    FunctionLine("f", <<"i","n","t"," ","f","(","i","n","t"," ","n",")"," ","{">>,
                 <<Decl(N_n, 10, FALSE, FALSE, TRUE)>>, <<Ident(N_n, 10, "decl")>>)

\* }
V_close == CloseLine("block_close", <<"}">>)

\* struct Node {
V_struct_open == StructLine(<<"s","t","r","u","c","t"," ","N","o","d","e"," ","{">>)

\* };
V_struct_close == CloseLine("struct_close", <<"}", ";">>)

\* int v;
V_decl_v ==
    CodeLine(<<"i","n","t"," ","v",";">>, << >>, <<Decl(N_v, 4, FALSE, FALSE, FALSE)>>,
             <<Ident(N_v, 4, "decl")>>, << >>)

\* int x;
V_decl_x ==
    CodeLine(<<"i","n","t"," ","x",";">>, << >>, <<Decl(N_x, 4, FALSE, FALSE, FALSE)>>,
             <<Ident(N_x, 4, "decl")>>, << >>)

\* x = 5;
V_assign_x == CodeLine(<<"x"," ","="," ","5",";">>, << >>, << >>, <<Ident(N_x, 0, "write")>>, << >>)

\* x = x + 1;
V_incr_x ==
    CodeLine(<<"x"," ","="," ","x"," ","+"," ","1",";">>, << >>, << >>,
             <<Ident(N_x, 0, "write"), Ident(N_x, 4, "read")>>, << >>)

\* printf("%d", x);
V_print_x ==
    CodeLine(<<"p","r","i","n","t","f","(","\"","%","d","\"",","," ","x",")",";">>,
             <<Call("printf", 0)>>, << >>, <<Ident(N_x, 13, "read")>>, << >>)

\* if (x == 5) {}
V_cmp_x == CodeLine(<<"i","f"," ","(","x"," ","=","="," ","5",")"," ","{","}">>, << >>, << >>, <<Ident(N_x, 4, "read")>>, << >>)

\* return n;
V_return_n == CodeLine(<<"r","e","t","u","r","n"," ","n",";">>, << >>, << >>, <<Ident(N_n, 7, "read")>>, << >>)

\* int *p;
V_decl_p ==
    CodeLine(<<"i","n","t"," ","*","p",";">>, << >>, <<Decl(N_p, 5, TRUE, FALSE, FALSE)>>,
             <<Ident(N_p, 5, "decl")>>, << >>)

\* int *p = NULL;
V_decl_p_null ==
    CodeLine(<<"i","n","t"," ","*","p"," ","="," ","N","U","L","L",";">>,
             << >>, <<Decl(N_p, 5, TRUE, TRUE, FALSE)>>,
             <<Ident(N_p, 5, "decl")>>, << >>)

\* *p = 5;
V_store_p ==
    CodeLine(<<"*","p"," ","="," ","5",";">>, << >>, << >>, <<Ident(N_p, 1, "read")>>, <<Deref(N_p, 1)>>)

\* x = *p;
V_load_p ==
    CodeLine(<<"x"," ","="," ","*","p",";">>, << >>, << >>,
             <<Ident(N_x, 0, "write"), Ident(N_p, 5, "read")>>, <<Deref(N_p, 5)>>)

\* p = 0;
V_assign_p == CodeLine(<<"p"," ","="," ","0",";">>, << >>, << >>, <<Ident(N_p, 0, "write")>>, << >>)

\* the statements a function body is drawn from
VarLines ==
    {V_decl_x, V_assign_x, V_incr_x, V_print_x, V_cmp_x,
     V_decl_p, V_decl_p_null, V_store_p, V_load_p, V_assign_p}

MaxBody == 2

\* int main() { <body> }
VarBodyFiles ==
    { <<V_main_open>> \o body \o <<V_close>> : body \in SeqsUpTo(VarLines, MaxBody) }

\* two functions, each with its own null pointer p
VarFile_TwoScopes ==
    <<V_f_open, V_decl_p_null, V_store_p, V_close,
      V_main_open, V_decl_p_null, V_store_p, V_close>>

\* a struct definition followed closely by a function with a local
VarFile_StructThenLocal ==
    <<V_struct_open, V_decl_v, V_struct_close,
      V_main_open, V_decl_x, V_print_x, V_close>>

\* a function that reads its parameter
VarFile_Parameter == <<V_f_param_open, V_return_n, V_close>>

\* a file the parser rejects
VarFile_Malformed == <<V_main_open, V_decl_x, BadLine(<<"@">>), V_print_x, V_close>>

\* two functions, each with its own local x: f reads it, main writes it
VarFile_TwoLocals ==
    <<V_f_open, V_decl_x, V_print_x, V_close,
      V_main_open, V_decl_x, V_assign_x, V_close>>

\* a local that is written first and read afterwards
VarFile_WriteThenRead ==
    <<V_main_open, V_decl_x, V_assign_x, V_print_x, V_close>>

VarFiles ==
    VarBodyFiles \cup {VarFile_TwoScopes, VarFile_StructThenLocal,
                       VarFile_Parameter, VarFile_Malformed, VarFile_TwoLocals,
                       VarFile_WriteThenRead}

\* how often the same file is analysed
NumRuns == 2

(***************************************************************************)
(* Inputs of the library detector                                          *)
(***************************************************************************)
H_stdoi == <<"s","t","d","o","i",".","h">>

H_MATH == <<"M","A","T","H",".","H">>

H_cctype == <<"c","c","t","y","p","e",".","h">>

H_graphics == <<"g","r","a","p","h","i","c","s",".","h">>

\* #include <stdio.h>
L_inc_stdio ==
    IncludeLine(<<"#","i","n","c","l","u","d","e"," ","<","s","t","d","i","o",".","h",">">>,
                H_stdio, TRUE)

\* #include "stdio.h"
L_inc_stdio_quoted ==
    IncludeLine(<<"#","i","n","c","l","u","d","e"," ","\"","s","t","d","i","o",".","h","\"">>,
                H_stdio, FALSE)

\* #include <stdoi.h>
L_inc_stdoi ==
    IncludeLine(<<"#","i","n","c","l","u","d","e"," ","<","s","t","d","o","i",".","h",">">>,
                H_stdoi, TRUE)

\* #include "stdoi.h"
L_inc_stdoi_quoted ==
    IncludeLine(<<"#","i","n","c","l","u","d","e"," ","\"","s","t","d","o","i",".","h","\"">>,
                H_stdoi, FALSE)

\* #include <MATH.H>
L_inc_MATH ==
    IncludeLine(<<"#","i","n","c","l","u","d","e"," ","<","M","A","T","H",".","H",">">>,
                H_MATH, TRUE)

\* #include <cctype.h>
L_inc_cctype ==
    IncludeLine(<<"#","i","n","c","l","u","d","e"," ","<","c","c","t","y","p","e",".","h",">">>,
                H_cctype, TRUE)

\* #include <graphics.h>
L_inc_graphics ==
    IncludeLine(<<"#","i","n","c","l","u","d","e"," ","<","g","r","a","p","h","i","c","s",".","h",">">>,
                H_graphics, TRUE)

\* #include <math.h>
L_inc_math ==
    IncludeLine(<<"#","i","n","c","l","u","d","e"," ","<","m","a","t","h",".","h",">">>,
                H_math, TRUE)

\* printf("hi");
L_call_printf ==
    CodeLine(<<"p","r","i","n","t","f","(","\"","h","i","\"",")",";">>,
             <<Call("printf", 0)>>, << >>, << >>, << >>)

\* foo();
L_call_foo ==
    CodeLine(<<"f","o","o","(",")",";">>, <<Call("foo", 0)>>, << >>, << >>, << >>)

\* toString(x);
L_call_toString ==
    CodeLine(<<"t","o","S","t","r","i","n","g","(","x",")",";">>,
             <<Call("toString", 0)>>, << >>, << >>, << >>)

\* y = sqrt(y);
L_call_sqrt ==
    CodeLine(<<"y"," ","="," ","s","q","r","t","(","y",")",";">>,
             <<Call("sqrt", 4)>>, << >>, << >>, << >>)

LibLines ==
    {L_inc_stdio, L_inc_stdio_quoted, L_inc_stdoi, L_inc_stdoi_quoted,
     L_inc_MATH, L_inc_cctype, L_inc_graphics, L_inc_math,
     L_call_printf, L_call_foo, L_call_toString, L_call_sqrt}

MaxLibLines == 2

(***************************************************************************)
(* Text fallback of the command line scanner (fallbackTextAnalysis).  The  *)
(* scanner exists in two revisions: the later one ("rich") tracks struct   *)
(* bodies and function context, the earlier one ("minimal") is a bare      *)
(* pattern match.                                                          *)
(***************************************************************************)
\* issue object of the command line scanner
CliIssue(file, line, category, message, codeLine) ==
    [file |-> file, line |-> line, category |-> category,
     message |-> message, codeLine |-> codeLine]

\* (?:^|\s+)
RePrefix == Alt(<<Bol, Plus(ReSpace)>>)

\* (int|char|float|double|long|short)
ReScalarType == Alt(<<Lit(<<"i","n","t">>), Lit(<<"c","h","a","r">>), Lit(<<"f","l","o","a","t">>), Lit(<<"d","o","u","b","l","e">>), Lit(<<"l","o","n","g">>), Lit(<<"s","h","o","r","t">>)>>)

\* (?:int|void|char|float|double)
ReReturnType == Alt(<<Lit(<<"i","n","t">>), Lit(<<"v","o","i","d">>), Lit(<<"c","h","a","r">>), Lit(<<"f","l","o","a","t">>), Lit(<<"d","o","u","b","l","e">>)>>)

\* /(?:^|\s+)(int|char|float|double|long|short)\s+(\w+)\s*(?:\[[^\]]*\])?\s*;/
\* split at the start of the second group
ReVarDeclHead == Cat(<<RePrefix, ReScalarType, Plus(ReSpace)>>)

ReVarDeclTail ==
    Cat(<<Plus(ReWord), Star(ReSpace),
          Opt(Cat(<<Lit(<<"[">>), Star(NotChr({"]"})), Lit(<<"]">>)>>)),
          Star(ReSpace), Lit(<<";">>)>>)

ReVarDecl == Cat(<<ReVarDeclHead, ReVarDeclTail>>)

\* the longest run of word characters of s that starts at index i
RECURSIVE WordRun(_, _)
WordRun(s, i) ==
    IF i < Len(s) /\ s[i + 1] \in WordChars
    THEN <<s[i + 1]>> \o WordRun(s, i + 1)
    ELSE << >>

\* varMatch[2]: the declared name of the leftmost match of ReVarDecl
VarMatchName(line) ==
    LET start == FirstStart(ReVarDecl, line)
        nameStarts == { n \in Ends(ReVarDeclHead, line, start) :
                          Ends(ReVarDeclTail, line, n) # {} }
        n == CHOOSE m \in nameStarts : \A o \in nameStarts : m <= o
    IN  WordRun(line, n)

\* /^\s*typedef\s+struct\s+\w*\s*\{/
ReTypedefStructOpen ==
    Cat(<<Bol, Star(ReSpace), Lit(<<"t","y","p","e","d","e","f">>), Plus(ReSpace), Lit(<<"s","t","r","u","c","t">>),
          Plus(ReSpace), Star(ReWord), Star(ReSpace), Lit(<<"{">>)>>)

\* /^\s*struct\s+\w*\s*\{/
ReStructOpen ==
    Cat(<<Bol, Star(ReSpace), Lit(<<"s","t","r","u","c","t">>), Plus(ReSpace), Star(ReWord),
          Star(ReSpace), Lit(<<"{">>)>>)

\* the first loop of the rich fallbackTextAnalysis: the 1-based numbers of
\* the lines marked in structContexts
RECURSIVE StructContexts(_, _, _, _, _)
StructContexts(sourceLines, i, inStruct, braceCount, marked) ==
    IF i >= Len(sourceLines)
    THEN marked
    ELSE LET line == Trim(sourceLines[i + 1])
             opens == Test(ReTypedefStructOpen, line) \/ Test(ReStructOpen, line)
             inStruct1 == inStruct \/ opens
             braceCount1 == IF opens THEN 1 ELSE braceCount
             braceCount2 ==
                 IF inStruct1
                 THEN braceCount1 + CountChar(line, "{") - CountChar(line, "}")
                 ELSE braceCount1
             inStruct2 == inStruct1 /\ ~ (braceCount2 <= 0)
             next == IF inStruct2 THEN marked \cup {i + 1} ELSE marked
         IN  IF Done(next) /\ Done(braceCount2)
             THEN StructContexts(sourceLines, i + 1, inStruct2, braceCount2, next)
             ELSE marked

\* /(?:^|\s+)(?:int|void|char|float|double)\s+\w+\s*\(
ReFunctionHead ==
    Cat(<<RePrefix, ReReturnType, Plus(ReSpace), Plus(ReWord), Star(ReSpace),
          Lit(<<"(">>)>>)

\* ...\(([^)]*)\)/
ReFunctionSignature ==
    Cat(<<ReFunctionHead, Star(NotChr({")"})), Lit(<<")">>)>>)

\* ...\([^)]*\)\s*\{/
ReFunctionDefinition ==
    Cat(<<ReFunctionSignature, Star(ReSpace), Lit(<<"{">>)>>)

\* ...\([^)]*\)\s*;/
ReFunctionPrototype ==
    Cat(<<ReFunctionSignature, Star(ReSpace), Lit(<<";">>)>>)

\* funcMatch[1]: the parameter text of the leftmost match of
\* ReFunctionSignature
FuncMatchParams(line) ==
    LET start == FirstStart(ReFunctionSignature, line)
        opens == { q \in Ends(ReFunctionHead, line, start) :
                     IndexOf(line, <<")">>, q) >= 0 }
        q == CHOOSE m \in opens : \A o \in opens : m <= o
    IN  Slice(line, q, IndexOf(line, <<")">>, q))

\* /\w+\s*\[[^\]]*\]\s*;/
ReArrayDeclaration ==
    Cat(<<Plus(ReWord), Star(ReSpace), Lit(<<"[">>), Star(NotChr({"]"})),
          Lit(<<"]">>), Star(ReSpace), Lit(<<";">>)>>)

isArrayDeclaration(line) == Test(ReArrayDeclaration, line)

\* isFunctionParameter: the loop from lineIndex upwards
RECURSIVE isFunctionParameterFrom(_, _, _)
isFunctionParameterFrom(sourceLines, i, varName) ==
    IF i < 0
    THEN FALSE
    ELSE LET line == Trim(sourceLines[i + 1])
         IN  IF Test(ReFunctionSignature, line)
                  /\ Includes(FuncMatchParams(line), varName)
             THEN TRUE
             ELSE IF Includes(line, <<"{">>) \/ Test(ReFunctionPrototype, line)
             THEN FALSE
             ELSE isFunctionParameterFrom(sourceLines, i - 1, varName)

isFunctionParameter(sourceLines, lineIndex, varName) ==
    isFunctionParameterFrom(sourceLines, lineIndex, varName)

\* /(?:^|\s+)(?:int|void|char|float|double|struct|typedef)/
ReDeclarationKeyword == Cat(<<RePrefix, Alt(<<Lit(<<"i","n","t">>), Lit(<<"v","o","i","d">>), Lit(<<"c","h","a","r">>), Lit(<<"f","l","o","a","t">>), Lit(<<"d","o","u","b","l","e">>), Lit(<<"s","t","r","u","c","t">>), Lit(<<"t","y","p","e","d","e","f">>)>>)>>)

\* isGlobalVariable: the loop from lineIndex upwards
RECURSIVE isGlobalVariableFrom(_, _)
isGlobalVariableFrom(sourceLines, i) ==
    IF i < 0
    THEN TRUE
    ELSE LET line == Trim(sourceLines[i + 1])
         IN  IF Test(ReFunctionDefinition, line) THEN FALSE
             ELSE IF Includes(line, <<"{">>) THEN FALSE
             ELSE IF StartsWith(line, <<"#">>) \/ line = << >>
             THEN isGlobalVariableFrom(sourceLines, i - 1)
             ELSE IF Test(ReDeclarationKeyword, line) THEN TRUE
             ELSE isGlobalVariableFrom(sourceLines, i - 1)

isGlobalVariable(sourceLines, lineIndex) ==
    isGlobalVariableFrom(sourceLines, lineIndex)

\* isInFunctionContext: the inner loop, from the line with the open brace
\* upwards
RECURSIVE EnclosingFunctionFrom(_, _, _)
EnclosingFunctionFrom(sourceLines, j, braceCount) ==
    IF j < 0
    THEN FALSE
    ELSE LET checkLine == Trim(sourceLines[j + 1])
             count == braceCount + CountChar(checkLine, "{")
                                 - CountChar(checkLine, "}")
         IN  IF count < 0 THEN FALSE
             ELSE IF Test(ReFunctionDefinition, checkLine) THEN TRUE
             ELSE EnclosingFunctionFrom(sourceLines, j - 1, count)

\* isInFunctionContext: the loop from lineIndex upwards
RECURSIVE isInFunctionContextFrom(_, _)
isInFunctionContextFrom(sourceLines, i) ==
    IF i < 0
    THEN FALSE
    ELSE LET line == Trim(sourceLines[i + 1])
         IN  IF Test(ReFunctionDefinition, line) THEN TRUE
             ELSE IF Includes(line, <<"{">>) /\ ~ Includes(line, <<"}">>)
             THEN EnclosingFunctionFrom(sourceLines, i, 0)
             ELSE IF \/ Test(ReFunctionPrototype, line)
                     \/ StartsWith(line, <<"#">>)
                     \/ Trim(line) = << >>
             THEN FALSE
             ELSE isInFunctionContextFrom(sourceLines, i - 1)

isInFunctionContext(sourceLines, lineIndex) ==
    isInFunctionContextFrom(sourceLines, lineIndex)

\* /name\s*\(/ for each of the names
ReCallOf(names) ==
    Cat(<<Alt([k \in 1..Len(names) |-> Lit(names[k])]), Star(ReSpace),
          Lit(<<"(">>)>>)

N_malloc == <<"m","a","l","l","o","c">>

N_printf == <<"p","r","i","n","t","f">>

N_free == <<"f","r","e","e">>

\* (scanf|fprintf|fprintf)
StdioCallNames == <<<<"s","c","a","n","f">>, <<"f","p","r","i","n","t","f">>, <<"f","p","r","i","n","t","f">>>>

\* (sin|cos|tan|sqrt|pow)
MathCallNames == <<<<"s","i","n">>, <<"c","o","s">>, <<"t","a","n">>, <<"s","q","r","t">>, <<"p","o","w">>>>

\* sourceCode.includes('#include <name>')
SourceIncludes(sourceLines, header) ==
    \E i \in 1..Len(sourceLines) :
        Includes(sourceLines[i], <<"#","i","n","c","l","u","d","e"," ","<">> \o header \o <<">">>)

UninitializedDeclarationIssue(filePath, lineNumber, codeLine) ==
    CliIssue(filePath, lineNumber, "Uninitialized",
             Message("declaredWithoutInitialization", "", << >>, << >>), codeLine)

MissingHeaderIssue(filePath, lineNumber, what, header, codeLine) ==
    CliIssue(filePath, lineNumber, "Header",
             Message("usedWithoutHeader", what, << >>, <<header>>), codeLine)

\* the declaration test of the rich revision
RichDeclarationFound(sourceLines, structContexts, i) ==
    LET line == sourceLines[i + 1]
    IN  /\ (i + 1) \notin structContexts
        /\ Test(ReVarDecl, line)
        /\ ~ Includes(line, <<"=">>)
        /\ ~ Includes(line, <<"(">>)
        /\ ~ Includes(line, <<"r","e","t","u","r","n">>)
        /\ ~ isArrayDeclaration(line)
        /\ ~ isFunctionParameter(sourceLines, i, VarMatchName(line))
        /\ (isGlobalVariable(sourceLines, i) \/ isInFunctionContext(sourceLines, i))

\* the issues the second loop of the rich revision pushes for line i
RichLineIssues(filePath, sourceLines, structContexts, i) ==
    LET line == sourceLines[i + 1]
        codeLine == Trim(line)
    IN  (IF RichDeclarationFound(sourceLines, structContexts, i)
         THEN <<UninitializedDeclarationIssue(filePath, i + 1, codeLine)>>
         ELSE << >>)
        \o (IF Test(ReCallOf(<<N_malloc>>), line)
               /\ ~ SourceIncludes(sourceLines, H_stdlib)
            THEN <<MissingHeaderIssue(filePath, i + 1, "malloc", H_stdlib, codeLine)>>
            ELSE << >>)
        \o (IF Test(ReCallOf(<<N_printf>>), line)
               /\ ~ SourceIncludes(sourceLines, H_stdio)
            THEN <<MissingHeaderIssue(filePath, i + 1, "printf", H_stdio, codeLine)>>
            ELSE << >>)
        \o (IF Test(ReCallOf(<<N_free>>), line)
               /\ ~ SourceIncludes(sourceLines, H_stdlib)
            THEN <<MissingHeaderIssue(filePath, i + 1, "free", H_stdlib, codeLine)>>
            ELSE << >>)
        \o (IF Test(ReCallOf(StdioCallNames), line)
               /\ ~ SourceIncludes(sourceLines, H_stdio)
            THEN <<MissingHeaderIssue(filePath, i + 1, "stdio", H_stdio, codeLine)>>
            ELSE << >>)
        \o (IF Test(ReCallOf(MathCallNames), line)
               /\ ~ SourceIncludes(sourceLines, H_math)
            THEN <<MissingHeaderIssue(filePath, i + 1, "math", H_math, codeLine)>>
            ELSE << >>)

\* fallbackTextAnalysis, rich revision
fallbackTextAnalysis_Rich(filePath, sourceLines) ==
    LET structContexts == StructContexts(sourceLines, 0, FALSE, 0, {})
    IN  Flatten([k \in 1..Len(sourceLines) |->
            RichLineIssues(filePath, sourceLines, structContexts, k - 1)])

\* /int\s+\w+\s*;/
ReIntDecl ==
    Cat(<<Lit(<<"i","n","t">>), Plus(ReSpace), Plus(ReWord), Star(ReSpace), Lit(<<";">>)>>)

\* the issues the loop of the minimal revision pushes for line i
MinimalLineIssues(filePath, sourceLines, i) ==
    LET line == sourceLines[i + 1]
    IN  (IF Test(ReIntDecl, line) /\ ~ Includes(line, <<"=">>)
         THEN <<UninitializedDeclarationIssue(filePath, i + 1, line)>>
         ELSE << >>)
        \o (IF Test(ReCallOf(<<N_malloc>>), line)
               /\ ~ SourceIncludes(sourceLines, H_stdlib)
            THEN <<MissingHeaderIssue(filePath, i + 1, "malloc", H_stdlib, line)>>
            ELSE << >>)
        \o (IF Test(ReCallOf(<<N_printf>>), line)
               /\ ~ SourceIncludes(sourceLines, H_stdio)
            THEN <<MissingHeaderIssue(filePath, i + 1, "printf", H_stdio, line)>>
            ELSE << >>)

\* fallbackTextAnalysis, minimal revision
fallbackTextAnalysis_Minimal(filePath, sourceLines) ==
    Flatten([k \in 1..Len(sourceLines) |->
        MinimalLineIssues(filePath, sourceLines, k - 1)])

\* fallbackTextAnalysis of the revision in use
fallbackTextAnalysis(revision, filePath, sourceLines) ==
    IF revision = "rich"
    THEN fallbackTextAnalysis_Rich(filePath, sourceLines)
    ELSE fallbackTextAnalysis_Minimal(filePath, sourceLines)

(***************************************************************************)
(* Command line scanner: analyzeDir, fallbackTextAnalysisForDir,           *)
(* printIssues and main                                                    *)
(***************************************************************************)
\* StandaloneASTAdvancedDetector.analyzeFile (the detector is not part of
\* the sources at hand)
AdvDetector_analyzeFile(filePath, lines) == << >>

\* lines 76-84: the issue pushed for an issue of a detector
ConvertIssue(filePath, sourceLines, issue) ==
    CliIssue(filePath, issue.line, issue.category, issue.message,
             Trim(LineOrEmpty(sourceLines, issue.line - 1)))

\* a merge that puts the issues of the library detector first
AllIssues_LibraryFirst(filePath, lines) ==
    LibAnalyzeFile(filePath, lines)
        \o VarAnalyzeFile(filePath, lines, << >>).issues
        \o checkHeaderSpelling(filePath, lines)
        \o AdvDetector_analyzeFile(filePath, lines)

\* lines 58-73: the detectors in call order, each a fresh instance
AllIssues(filePath, lines) ==
    VarAnalyzeFile(filePath, lines, << >>).issues
        \o LibAnalyzeFile(filePath, lines)
        \o checkHeaderSpelling(filePath, lines)
        \o AdvDetector_analyzeFile(filePath, lines)

\* a branch that runs the text fallback whatever useAST says
FileContribution_AlwaysFallback(revision, outcome, filePath, lines) ==
    [astRan |-> FALSE, fallbackRan |-> outcome # "readFails",
     issues |-> IF outcome = "readFails"
                THEN << >>
                ELSE fallbackTextAnalysis(revision, filePath, SourceLines(lines))]

\* lines 27-95, the body of the loop over the files: which analysis ran and
\* what the file adds to issues.  outcome is what the environment does:
\* "readFails" (readFileSync throws), "constructFails" (an import or a
\* constructor throws), "ok".
FileContribution(revision, outcome, filePath, lines) ==
    LET sourceLines == SourceLines(lines)
        allIssues == AllIssues(filePath, lines)
    IN  CASE outcome = "readFails" ->
                [astRan |-> FALSE, fallbackRan |-> FALSE, issues |-> << >>]
          [] outcome = "constructFails" ->
                [astRan |-> FALSE, fallbackRan |-> TRUE,
                 issues |-> fallbackTextAnalysis(revision, filePath, sourceLines)]
          [] outcome = "ok" /\ CASTParser_parseThrows(lines) ->
                [astRan |-> FALSE, fallbackRan |-> FALSE, issues |-> << >>]
          [] outcome = "ok" /\ ~ CASTParser_parseThrows(lines) ->
                [astRan |-> TRUE, fallbackRan |-> FALSE,
                 issues |-> [k \in 1..Len(allIssues) |->
                                ConvertIssue(filePath, sourceLines, allIssues[k])]]

\* f.endsWith('.c')
IsCFile(name) == EndsWith(name, <<".", "c">>)

\* path.join(dir, f)
PathJoin(dir, f) == dir \o <<"/">> \o f

\* path.relative(from, to) for a path below from
PathRelative(from, to) ==
    IF StartsWith(to, from \o <<"/">>) THEN SliceFrom(to, Len(from) + 1) ELSE to

\* a catch clause that returns the empty list
DirFallbackIssues_None(revision, dir, entries) == << >>

\* fallbackTextAnalysisForDir: the loop over the files
DirFallbackIssues(revision, dir, entries) ==
    LET cfiles == SelectSeq(entries, LAMBDA e : IsCFile(e.name))
    IN  Flatten([k \in 1..Len(cfiles) |->
            fallbackTextAnalysis(revision, PathJoin(dir, cfiles[k].name),
                                 SourceLines(cfiles[k].lines))])

AvlTreeName == <<"a","v","l","_","t","r","e","e",".","c">>

\* printIssues: the filter
IsSuppressed(issue) ==
    /\ Includes(issue.file, AvlTreeName)
    /\ issue.line \in {7, 8, 16}

filteredIssues(issues) == SelectSeq(issues, LAMBDA issue : ~ IsSuppressed(issue))

NoIssue == CliIssue(<< >>, 0, "", Message("", "", << >>, << >>), << >>)

\* one console.log of main or printIssues (the two lines of an issue are one
\* record)
Printed(t, issue) == [t |-> t, issue |-> issue]

\* printIssues
printIssues(cwd, issues) ==
    LET kept == filteredIssues(issues)
    IN  [k \in 1..Len(kept) |->
            Printed("issue",
                    [kept[k] EXCEPT !.file = PathRelative(cwd, kept[k].file)])]

\* main, lines 407-413
MainReport(cwd, issues) ==
    (IF Len(issues) = 0
     THEN <<Printed("noProblems", NoIssue)>>
     ELSE printIssues(cwd, issues))
        \o <<Printed("tables", NoIssue)>>

(***************************************************************************)
(* Inputs of the command line scanner                                      *)
(***************************************************************************)
Cwd == <<"/", "w">>

SamplesDir == PathJoin(Cwd, <<"s">>)

N_c == <<"c">>

N_h == <<"h">>

\* an empty line
T_blank == CodeLine(<< >>, << >>, << >>, << >>, << >>)

\* char c;
T_decl_c ==
    CodeLine(<<"c","h","a","r"," ","c",";">>, << >>, <<Decl(N_c, 5, FALSE, FALSE, FALSE)>>,
             <<Ident(N_c, 5, "decl")>>, << >>)

\* printf("%c", c);
T_print_c ==
    CodeLine(<<"p","r","i","n","t","f","(","\"","%","c","\"",","," ","c",")",";">>,
             <<Call("printf", 0)>>, << >>, <<Ident(N_c, 13, "read")>>, << >>)

\* int h;
T_decl_h ==
    CodeLine(<<"i","n","t"," ","h",";">>, << >>, <<Decl(N_h, 4, FALSE, FALSE, FALSE)>>,
             <<Ident(N_h, 4, "decl")>>, << >>)

\* printf("%d", h);
T_print_h ==
    CodeLine(<<"p","r","i","n","t","f","(","\"","%","d","\"",","," ","h",")",";">>,
             <<Call("printf", 0)>>, << >>, <<Ident(N_h, 13, "read")>>, << >>)

\* int x; printf("%d", x);
Content_ScenarioInt == <<V_decl_x, V_print_x>>

\* char c; printf("%c", c);
Content_ScenarioChar == <<T_decl_c, T_print_c>>

\* uses on lines 2 and 8, declarations on lines 1 and 7
Content_Avl ==
    <<V_decl_x, V_print_x, T_blank, T_blank, T_blank, T_blank, T_decl_h, T_print_h>>

\* a file whose only uninitialized variable is declared at line 7 and used
\* at line 8
Content_AvlFields ==
    <<T_blank, T_blank, T_blank, T_blank, T_blank, T_blank, T_decl_h, T_print_h>>

\* a file the parser rejects
Content_Bad == <<V_decl_x, BadLine(<<"@">>), V_print_x>>

\* #include <stdio.h> and a call of printf
Content_Clean == <<L_inc_stdio, L_call_printf>>

\* #include <stdoi.h>, int x; printf("%d", x);
Content_AllGroups == <<L_inc_stdoi, V_decl_x, V_print_x>>

DirEntry(name, lines) == [name |-> name, lines |-> lines]

\* what a directory can hold, in the order readdirSync lists it
DirOrder ==
    <<DirEntry(<<"a","v","l","_","t","r","e","e",".","c">>, Content_Avl),
      DirEntry(<<"b","a","d",".","c">>, Content_Bad),
      DirEntry(<<"c","h","a","r","s",".","c">>, Content_ScenarioChar),
      DirEntry(<<"c","l","e","a","n",".","c">>, Content_Clean),
      DirEntry(<<"g","r","o","u","p","s",".","c">>, Content_AllGroups),
      DirEntry(<<"m","a","i","n",".","c">>, Content_ScenarioInt),
      DirEntry(<<"m","y","_","a","v","l","_","t","r","e","e",".","c">>, Content_Avl),
      DirEntry(<<"n","o","t","e","s",".","t","x","t">>, Content_ScenarioInt),
      DirEntry(<<"o","l","d","_","a","v","l","_","t","r","e","e",".","c">>,
               Content_AvlFields)>>

MaxFiles == 2

\* the directories: at most MaxFiles entries
Directories ==
    { SelectSeq(DirOrder, LAMBDA e : e \in S) :
        S \in { T \in SUBSET Range(DirOrder) :
                  Cardinality(T) >= 1 /\ Cardinality(T) <= MaxFiles } }

(***************************************************************************)
(* Scope-stack heuristic scanner (heuristic_test.ts).  The state of the    *)
(* scan of one file is a record: globals (a Map, kept as the sequence of   *)
(* its values in insertion order), localsStack (a sequence of such Maps),  *)
(* funcStack (a sequence of names, pushed and popped with localsStack)     *)
(* and braceDepth.                                                         *)
(***************************************************************************)
VariableInfo(name, typeName, isPointer, isInitialized) ==
    [name |-> name, typeName |-> typeName, isPointer |-> isPointer,
     isInitialized |-> isInitialized, firstUseLine |-> 0]

MapHas(map, name) == \E k \in 1..Len(map) : map[k].name = name

MapIndex(map, name) == CHOOSE k \in 1..Len(map) : map[k].name = name

\* Map.prototype.set: a known key keeps its place
MapSet(map, v) ==
    IF MapHas(map, v.name)
    THEN [map EXCEPT ![MapIndex(map, v.name)] = v]
    ELSE Append(map, v)

MapKeys(map) == [k \in 1..Len(map) |-> map[k].name]

\* new Set([...]): the first occurrence of each element, in order
RECURSIVE Unique(_)
Unique(s) ==
    IF s = << >>
    THEN << >>
    ELSE LET front == Unique(SubSeq(s, 1, Len(s) - 1))
         IN  IF s[Len(s)] \in Range(front) THEN front ELSE Append(front, s[Len(s)])

\* lines 199 and 209: the names of the globals, then of the locals from the
\* outermost scope to the innermost
KnownNames(st) ==
    Unique(MapKeys(st.globals)
           \o Flatten([k \in 1..Len(st.localsStack) |-> MapKeys(st.localsStack[k])]))

\* getVar: the level of the innermost scope that holds the name; 0 for the
\* globals, -1 when the name is unknown
LevelOf(st, name) ==
    LET levels == { k \in 1..Len(st.localsStack) : MapHas(st.localsStack[k], name) }
    IN  IF levels # {}
        THEN CHOOSE k \in levels : \A m \in levels : m <= k
        ELSE IF MapHas(st.globals, name) THEN 0 ELSE -1

\* getVar
getVar(st, name) ==
    LET level == LevelOf(st, name)
    IN  IF level = -1 THEN << >>
        ELSE IF level = 0 THEN <<st.globals[MapIndex(st.globals, name)]>>
        ELSE <<st.localsStack[level][MapIndex(st.localsStack[level], name)]>>

\* a write to the record getVar returns
SetVar(st, name, v) ==
    LET level == LevelOf(st, name)
    IN  IF level = -1 THEN st
        ELSE IF level = 0
        THEN [st EXCEPT !.globals = MapSet(@, v)]
        ELSE [st EXCEPT !.localsStack[level] = MapSet(@, v)]

\* markInit (its result, the pointerInitKind of the line, is not used by the
\* caller)
markInit(st, name) ==
    IF getVar(st, name) = << >>
    THEN st
    ELSE SetVar(st, name, [getVar(st, name)[1] EXCEPT !.isInitialized = TRUE])

\* String.prototype.split(sep) for a one-character separator
RECURSIVE Split(_, _)
Split(s, sep) ==
    LET at == IndexOf(s, <<sep>>, 0)
    IN  IF at = -1
        THEN <<s>>
        ELSE <<Slice(s, 0, at)>> \o Split(SliceFrom(s, at + 1), sep)

typeKeywords ==
    <<<<"i","n","t">>,
      <<"c","h","a","r">>,
      <<"f","l","o","a","t">>,
      <<"d","o","u","b","l","e">>,
      <<"v","o","i","d">>,
      <<"s","h","o","r","t">>,
      <<"l","o","n","g">>,
      <<"s","i","g","n","e","d">>,
      <<"u","n","s","i","g","n","e","d">>,
      <<"b","o","o","l">>,
      <<"s","i","z","e","_","t">>>>

\* /\b(printf|scanf|malloc|free|strcpy|strlen)\b/
ReLibraryWord ==
    Cat(<<WordB,
          Alt(<<Lit(<<"p","r","i","n","t","f">>),
                Lit(<<"s","c","a","n","f">>),
                Lit(<<"m","a","l","l","o","c">>),
                Lit(<<"f","r","e","e">>),
                Lit(<<"s","t","r","c","p","y">>),
                Lit(<<"s","t","r","l","e","n">>)>>),
          WordB>>)

\* new RegExp(`(^|\\s)${t}(\\s|\\*)`)
ReTypeKeyword(t) ==
    Cat(<<Alt(<<Bol, ReSpace>>), Lit(t), Alt(<<ReSpace, Lit(<<"*">>)>>)>>)

isLikelyDecl(line) ==
    /\ Includes(line, <<";">>)
    /\ ~ StartsWith(TrimStart(line), <<"#">>)
    /\ ~ Test(ReLibraryWord, line)
    /\ \E k \in 1..Len(typeKeywords) : Test(ReTypeKeyword(typeKeywords[k]), line)

\* it.match(/\**\s*([a-zA-Z_][\w]*)/): the name, as a sequence of at most
\* one element
DeclaratorName(it) ==
    LET re == Cat(<<Star(Lit(<<"*">>)), Star(ReSpace), Chr(IdentStartChars)>>)
        start == FirstStart(re, it)
        ends == Ends(re, it, start)
        \* the greedy match: the identifier starts where the stars and the
        \* blanks end
        first == (CHOOSE e \in ends : \A o \in ends : e <= o) - 1
    IN  IF start = -1 THEN << >> ELSE <<WordRun(it, first)>>

RemoveChar(s, c) == SelectSeq(s, LAMBDA x : x # c)

\* the body of the loop of parseDecl over decls.split(',')
ParseDeclarator(base, raw) ==
    LET it == Trim(raw)
    IN  IF it = << >> \/ Includes(it, <<"(">>) \/ DeclaratorName(it) = << >>
        THEN << >>
        ELSE <<VariableInfo(DeclaratorName(it)[1],
                            Trim(RemoveChar(base, "*")),
                            StartsWith(it, <<"*">>) \/ Includes(base, <<"*">>),
                            Includes(it, <<"=">>))>>

\* parseDecl.  head.match(/^\s*([a-zA-Z_][\w\s\*]*?)\s+(.+)$/): the lazy
\* first group ends at the first blank, the second group is what follows
parseDecl(line) ==
    LET semi == IndexOf(line, <<";">>, 0)
        head == IF semi >= 0 THEN Slice(line, 0, semi) ELSE line
        start == Len(head) - Len(TrimStart(head))
        blanks == { e \in (start + 1)..(Len(head) - 1) : head[e + 1] \in SpaceChars }
        e == CHOOSE b \in blanks : \A o \in blanks : b <= o
        matches ==
            /\ start < Len(head)
            /\ head[start + 1] \in IdentStartChars
            /\ blanks # {}
            /\ \A k \in (start + 1)..e : head[k] \in WordChars \cup {"*"}
            /\ Len(head) - e >= 2
        items == Split(SliceFrom(head, e), ",")
    IN  IF ~ matches
        THEN << >>
        ELSE Flatten([k \in 1..Len(items) |->
                 ParseDeclarator(Trim(Slice(head, start, e)), items[k])])

\* pointerDerefPatterns(name).some(r => r.test(line))
derefHit(line, name) ==
    \/ Test(Cat(<<Lit(<<"*">>), Lit(name), WordB>>), line)
    \/ Test(Cat(<<Lit(name), Star(ReSpace), Lit(<<"-", ">">>)>>), line)
    \/ Test(Cat(<<Lit(name), Star(ReSpace), Lit(<<"[">>)>>), line)

\* new RegExp(`(^|[^\\w])${name}([^\\w]|$)`)
tokenContains(line, name) ==
    Test(Cat(<<Alt(<<Bol, NotChr(WordChars)>>), Lit(name),
               Alt(<<NotChr(WordChars), Eol>>)>>), line)

\* new RegExp(`(^|[^=<>!])${name}\\s*([-+*/]?=)`)
looksAssignmentTo(line, name) ==
    Test(Cat(<<Alt(<<Bol, NotChr({"=", "<", ">", "!"})>>), Lit(name),
               Star(ReSpace), Opt(Chr({"-", "+", "*", "/"})), Lit(<<"=">>)>>),
         line)

\* formatSpecCount: the loop from index i
RECURSIVE formatSpecCountFrom(_, _)
formatSpecCountFrom(fmt, i) ==
    IF i >= Len(fmt)
    THEN 0
    ELSE IF fmt[i + 1] = "%"
    THEN IF i + 1 < Len(fmt) /\ fmt[i + 2] = "%"
         THEN formatSpecCountFrom(fmt, i + 2)
         ELSE 1 + formatSpecCountFrom(fmt, i + 1)
    ELSE formatSpecCountFrom(fmt, i + 1)

formatSpecCount(fmt) == formatSpecCountFrom(fmt, 0)

\* getArgsFromCall: one character c of inside; a = [depth, buf, inStr, q, parts]
ArgsStep(a, c) ==
    IF a.inStr
    THEN [a EXCEPT !.buf = Append(@, c), !.inStr = ~ (c = a.q)]
    ELSE IF c \in {"\"", "'"}
    THEN [a EXCEPT !.inStr = TRUE, !.q = c, !.buf = Append(@, c)]
    ELSE IF c = "("
    THEN [a EXCEPT !.depth = @ + 1, !.buf = Append(@, c)]
    ELSE IF c = ")"
    THEN [a EXCEPT !.depth = IF @ > 0 THEN @ - 1 ELSE @, !.buf = Append(@, c)]
    ELSE IF c = "," /\ a.depth = 0
    THEN [a EXCEPT !.parts = Append(@, Trim(a.buf)), !.buf = << >>]
    ELSE [a EXCEPT !.buf = Append(@, c)]

\* getArgsFromCall: the loop over inside
RECURSIVE ArgsLoop(_, _, _)
ArgsLoop(inside, i, a) ==
    IF i >= Len(inside)
    THEN a
    ELSE Once(ArgsStep(a, inside[i + 1]), LAMBDA next : ArgsLoop(inside, i + 1, next))

getArgsFromCall(line) ==
    LET lp == IndexOf(line, <<"(">>, 0)
        rp == LastIndexOf(line, <<")">>)
        a == ArgsLoop(Slice(line, lp + 1, rp), 0,
                      [depth |-> 0, buf |-> << >>, inStr |-> FALSE, q |-> "",
                       parts |-> << >>])
    IN  IF lp < 0 \/ rp < 0 \/ rp <= lp
        THEN << >>
        ELSE IF Trim(a.buf) # << >> THEN Append(a.parts, Trim(a.buf)) ELSE a.parts

\* fmt.match(/^[\s\(]*"([\s\S]*?)"[\s\)]*$/): group 1, as a sequence of at
\* most one element
FmtStringOf(fmt) ==
    LET opening == { k \in 1..Len(fmt) :
                       /\ fmt[k] = "\""
                       /\ \A j \in 1..(k - 1) : fmt[j] \in SpaceChars \cup {"("} }
        open == CHOOSE k \in opening : TRUE
        closing == { k \in (open + 1)..Len(fmt) :
                       /\ fmt[k] = "\""
                       /\ \A j \in (k + 1)..Len(fmt) : fmt[j] \in SpaceChars \cup {")"} }
        close == CHOOSE k \in closing : \A o \in closing : k <= o
    IN  IF opening = {} THEN << >>
        ELSE IF closing = {} THEN << >>
        ELSE <<SubSeq(fmt, open + 1, close - 1)>>

\* getNameFromExpr: '' when there is no identifier
getNameFromExpr(expr) ==
    LET trimmed == Trim(expr)
        e == IF StartsWith(trimmed, <<"&">>) THEN SliceFrom(trimmed, 1) ELSE trimmed
        start == FirstStart(Chr(IdentStartChars), e)
    IN  IF start = -1 THEN << >> ELSE WordRun(e, start)

\* a scope tracking that counts a closing brace below zero
RECURSIVE TrackBraces_Unclamped(_, _, _)
TrackBraces_Unclamped(raw, k, st) ==
    IF k > Len(raw)
    THEN st
    ELSE LET next ==
                 IF raw[k] = "{"
                 THEN [st EXCEPT !.braceDepth = @ + 1,
                                 !.localsStack = Append(@, << >>),
                                 !.funcStack = Append(@, "")]
                 ELSE IF raw[k] = "}"
                 THEN [st EXCEPT !.braceDepth = @ - 1,
                                 !.localsStack =
                                     IF @ = << >> THEN @ ELSE SubSeq(@, 1, Len(@) - 1),
                                 !.funcStack =
                                     IF @ = << >> THEN @ ELSE SubSeq(@, 1, Len(@) - 1)]
                 ELSE st
         IN  IF Done(next) THEN TrackBraces_Unclamped(raw, k + 1, next) ELSE st

\* lines 144-147: the scope tracking over the characters of the raw line
RECURSIVE TrackBraces(_, _, _)
TrackBraces(raw, k, st) ==
    IF k > Len(raw)
    THEN st
    ELSE LET next ==
                 IF raw[k] = "{"
                 THEN [st EXCEPT !.braceDepth = @ + 1,
                                 !.localsStack = Append(@, << >>),
                                 !.funcStack = Append(@, "")]
                 ELSE IF raw[k] = "}"
                 THEN [st EXCEPT !.braceDepth = Max2(0, @ - 1),
                                 !.localsStack =
                                     IF @ = << >> THEN @ ELSE SubSeq(@, 1, Len(@) - 1),
                                 !.funcStack =
                                     IF @ = << >> THEN @ ELSE SubSeq(@, 1, Len(@) - 1)]
                 ELSE st
         IN  IF Done(next) THEN TrackBraces(raw, k + 1, next) ELSE st

\* token.match(/([a-zA-Z_][\w]*)\s*$/): the name, as a sequence of at most
\* one element
ParameterName(token) ==
    LET re == Cat(<<Chr(IdentStartChars), Star(ReWord), Star(ReSpace), Eol>>)
        start == FirstStart(re, token)
    IN  IF start = -1 THEN << >> ELSE <<WordRun(token, start)>>

\* s.replace(/\s+/g, ' ')
RECURSIVE CollapseBlanks(_)
CollapseBlanks(s) ==
    IF s = << >> THEN << >>
    ELSE IF Head(s) \in SpaceChars
    THEN <<" ">> \o CollapseBlanks(TrimStart(s))
    ELSE <<Head(s)>> \o CollapseBlanks(Tail(s))

\* lines 166-167.  The pattern is built from a template literal, in which
\* \s is the letter s: new RegExp("([\\*s])?" + name + "s*$")
ParameterTypeName(token, name) ==
    LET re == Cat(<<Opt(Chr({"*", "s"})), Lit(name), Star(Lit(<<"s">>)), Eol>>)
        start == FirstStart(re, token)
        typePart == Trim(IF start = -1 THEN token ELSE Slice(token, 0, start))
        typeName == Trim(RemoveChar(CollapseBlanks(typePart), "*"))
    IN  IF typeName = << >> THEN <<"i", "n", "t">> ELSE typeName

\* the loop over params (lines 159-169): locals.set for each parameter
RECURSIVE SetParameters(_, _, _)
SetParameters(locals, params, k) ==
    IF k > Len(params)
    THEN locals
    ELSE LET token == Trim(params[k])
             next ==
                 IF token = << >> \/ ParameterName(token) = << >>
                 THEN locals
                 ELSE MapSet(locals,
                          VariableInfo(ParameterName(token)[1],
                                       ParameterTypeName(token, ParameterName(token)[1]),
                                       Includes(token, <<"*">>), TRUE))
         IN  IF Done(next) THEN SetParameters(next, params, k + 1) ELSE locals

\* lines 150-173: a function definition head puts its parameters into the
\* innermost scope
FunctionHead(raw, st) ==
    LET lp == IndexOf(raw, <<"(">>, 0)
        rp == LastIndexOf(raw, <<")">>)
        paramsRaw == Trim(Slice(raw, lp + 1, rp))
    IN  IF /\ Includes(raw, <<"(">>)
           /\ Includes(raw, <<")">>)
           /\ EndsWith(Trim(raw), <<"{">>)
           /\ ~ StartsWith(TrimStart(raw), <<"#">>)
           /\ lp >= 0 /\ rp > lp
           /\ paramsRaw # << >>
           /\ paramsRaw # <<"v", "o", "i", "d">>
           /\ st.localsStack # << >>
        THEN [st EXCEPT !.localsStack[Len(st.localsStack)] =
                 SetParameters(@, getArgsFromCall(raw), 1)]
        ELSE st

\* lines 178-181: the declared variables go to the globals at depth 0 and to
\* the innermost scope otherwise
RECURSIVE DeclareAll(_, _, _)
DeclareAll(st, decls, k) ==
    IF k > Len(decls)
    THEN st
    ELSE LET next ==
                 IF st.braceDepth = 0 \/ st.localsStack = << >>
                 THEN [st EXCEPT !.globals = MapSet(@, decls[k])]
                 ELSE [st EXCEPT !.localsStack[Len(st.localsStack)] =
                                     MapSet(@, decls[k])]
         IN  IF Done(next) THEN DeclareAll(next, decls, k + 1) ELSE st

\* /\bfor\s*\(\s*;\s*;\s*\)/
ReForEver ==
    Cat(<<WordB, Lit(<<"f","o","r">>), Star(ReSpace), Lit(<<"(">>), Star(ReSpace),
          Lit(<<";">>), Star(ReSpace), Lit(<<";">>), Star(ReSpace), Lit(<<")">>)>>)

\* /\bwhile\s*\(\s*(1|true)\s*\)/
ReWhileTrue ==
    Cat(<<WordB, Lit(<<"w","h","i","l","e">>), Star(ReSpace), Lit(<<"(">>),
          Star(ReSpace), Alt(<<Lit(<<"1">>), Lit(<<"t","r","u","e">>)>>), Star(ReSpace),
          Lit(<<")">>)>>)

\* /\b(break|return|exit\s*\()\b/
ReLoopExit ==
    Cat(<<WordB,
          Alt(<<Lit(<<"b","r","e","a","k">>),
                Lit(<<"r","e","t","u","r","n">>),
                Cat(<<Lit(<<"e","x","i","t">>), Star(ReSpace), Lit(<<"(">>)>>)>>),
          WordB>>)

HeurIssue(filePath, lineNumber, category, kind, fn, raw) ==
    CliIssue(filePath, lineNumber, category, Message(kind, fn, << >>, << >>), raw)

\* lines 186-196
LoopIssues(filePath, i, line, raw) ==
    IF (Test(ReForEver, line) \/ Test(ReWhileTrue, line)) /\ ~ Test(ReLoopExit, line)
    THEN <<HeurIssue(filePath, i + 1, "Infinite loop", "noExplicitExit", "", raw)>>
    ELSE << >>

\* lines 199-206: every known name the line looks like assigning to becomes
\* initialized
RECURSIVE MarkAssigned(_, _, _, _)
MarkAssigned(st, line, names, k) ==
    IF k > Len(names)
    THEN st
    ELSE LET next ==
                 IF tokenContains(line, names[k]) /\ looksAssignmentTo(line, names[k])
                 THEN markInit(st, names[k])
                 ELSE st
         IN  IF Done(next) THEN MarkAssigned(next, line, names, k + 1) ELSE st

\* lines 209-234: every known name on the line whose variable is not
\* initialized yields an issue; st carries the issues
RECURSIVE CheckUses(_, _, _, _, _, _, _)
CheckUses(st, filePath, i, line, raw, names, k) ==
    IF k > Len(names)
    THEN st
    ELSE LET name == names[k]
             v == getVar(st, name)[1]
             issue ==
                 IF v.isPointer /\ derefHit(line, name)
                 THEN HeurIssue(filePath, i + 1, "Wild pointer",
                                "uninitializedPointer", "", raw)
                 ELSE HeurIssue(filePath, i + 1, "Uninitialized",
                                "usedBeforeInitialization", "", raw)
             next ==
                 IF ~ tokenContains(line, name) \/ getVar(st, name) = << >>
                 THEN st
                 ELSE IF v.isInitialized
                 THEN st
                 ELSE [SetVar(st, name,
                           [v EXCEPT !.firstUseLine = IF @ = 0 THEN i + 1 ELSE @])
                          EXCEPT !.issues = Append(@, issue)]
         IN  IF Done(next)
             THEN CheckUses(next, filePath, i, line, raw, names, k + 1)
             ELSE st

\* /\b(printf|scanf)\s*\(/
RePrintfOrScanf ==
    Cat(<<WordB, Alt(<<Lit(N_printf), Lit(<<"s","c","a","n","f">>)>>), Star(ReSpace), Lit(<<"(">>)>>)

\* /\bscanf\s*\(/
ReScanf == Cat(<<WordB, Lit(<<"s","c","a","n","f">>), Star(ReSpace), Lit(<<"(">>)>>)

\* lines 266-282: scanf arguments that are not addresses
ScanfAddressIssues(st, filePath, i, raw, args) ==
    Flatten([ai \in 1..(Len(args) - 1) |->
        LET expr == args[ai + 1]
            name == getNameFromExpr(expr)
            v == getVar(st, name)
        IN  IF name = << >> \/ StartsWith(Trim(expr), <<"&">>)
            THEN << >>
            ELSE IF v # << >> /\ v[1].typeName = <<"c", "h", "a", "r">>
            THEN << >>
            ELSE <<HeurIssue(filePath, i + 1, "Format", "scanfNeedsAddress",
                             "scanf", raw)>>])

\* lines 237-285
FormatIssues(st, filePath, i, line, raw) ==
    LET isScanf == Test(ReScanf, line)
        fn == IF isScanf THEN "scanf" ELSE "printf"
        args == getArgsFromCall(line)
        fmtStrMatch == FmtStringOf(args[1])
        specCount == IF fmtStrMatch # << >> THEN formatSpecCount(fmtStrMatch[1]) ELSE 0
        provided == Max2(0, Len(args) - 1)
    IN  IF ~ Test(RePrintfOrScanf, line) \/ Len(args) < 1
        THEN << >>
        ELSE (IF provided < specCount
              THEN <<HeurIssue(filePath, i + 1, "Format", "tooFewArguments", fn, raw)>>
              ELSE << >>)
             \o (IF provided > specCount
                 THEN <<HeurIssue(filePath, i + 1, "Format", "tooManyArguments", fn, raw)>>
                 ELSE << >>)
             \o (IF isScanf
                 THEN ScanfAddressIssues(st, filePath, i, raw, args)
                 ELSE << >>)

\* the state of the scan at the start of a file (lines 31-34), with the
\* issues found so far
ScanStart(found) ==
    [globals |-> << >>, localsStack |-> << >>, funcStack |-> << >>,
     braceDepth |-> 0, issues |-> found]

\* the line with its // comment cut off (line 141)
WithoutComment(line) ==
    IF Includes(line, <<"/", "/">>)
    THEN Slice(line, 0, IndexOf(line, <<"/", "/">>, 0))
    ELSE line

\* lines 186-285 for a line that is not a declaration; scoped is the state
\* after the scope tracking
ScanStatement(scoped, filePath, raw, line, i) ==
    Once(MarkAssigned([scoped EXCEPT !.issues = @ \o LoopIssues(filePath, i, line, raw)],
                      line, KnownNames(scoped), 1),
         LAMBDA assigned :
             Once(CheckUses(assigned, filePath, i, line, raw, KnownNames(assigned), 1),
                  LAMBDA used :
                      [used EXCEPT
                          !.issues = @ \o FormatIssues(used, filePath, i, line, raw)]))

\* lines 144-285 for a line that is neither empty nor a directive
ScanCode(st, filePath, raw, line, i) ==
    Once(FunctionHead(raw, TrackBraces(raw, 1, st)),
         LAMBDA scoped :
             IF isLikelyDecl(line)
             THEN DeclareAll(scoped, parseDecl(line), 1)
             ELSE ScanStatement(scoped, filePath, raw, line, i))

\* one iteration of the loop over the lines (lines 136-286)
ScanLine(st, filePath, raw, i) ==
    IF Trim(raw) = << >> \/ StartsWith(Trim(raw), <<"#">>)
    THEN st
    ELSE Once(WithoutComment(Trim(raw)),
              LAMBDA line : ScanCode(st, filePath, raw, line, i))

\* printIssues of heuristic_test.ts: every issue is printed
printIssues_Heuristic(cwd, found) ==
    [k \in 1..Len(found) |->
        Printed("issue", [found[k] EXCEPT !.file = PathRelative(cwd, found[k].file)])]

\* main of heuristic_test.ts, lines 318-324
MainReport_Heuristic(cwd, found) ==
    (IF Len(found) = 0
     THEN <<Printed("noProblems", NoIssue)>>
     ELSE printIssues_Heuristic(cwd, found))
        \o <<Printed("tables", NoIssue)>>

(***************************************************************************)
(* Inputs of the heuristic scanner                                         *)
(***************************************************************************)
PlainLine(text) == CodeLine(text, << >>, << >>, << >>, << >>)

\* for(;;) { }
K_for_ever == PlainLine(<<"f","o","r","(",";",";",")"," ","{"," ","}">>)

\* while (1) { break; }
K_while_break == PlainLine(<<"w","h","i","l","e"," ","(","1",")"," ","{"," ","b","r","e","a","k",";"," ","}">>)

\* while(1) { exit(-1); }
K_while_exit == PlainLine(<<"w","h","i","l","e","(","1",")"," ","{"," ","e","x","i","t","(","-","1",")",";"," ","}">>)

\* for(;;) { int c; }
K_for_decl == PlainLine(<<"f","o","r","(",";",";",")"," ","{"," ","i","n","t"," ","c",";"," ","}">>)

\* printf("%d %d", x);
K_printf_few == FormatLine(<<"p","r","i","n","t","f","(","\"","%","d"," ","%","d","\"",","," ","x",")",";">>, "printf", 0, 2, 1)

\* printf("%d", x, x);
K_printf_many == FormatLine(<<"p","r","i","n","t","f","(","\"","%","d","\"",","," ","x",","," ","x",")",";">>, "printf", 0, 1, 2)

\* printf("%d%%", x);
K_printf_percent == FormatLine(<<"p","r","i","n","t","f","(","\"","%","d","%","%","\"",","," ","x",")",";">>, "printf", 0, 1, 1)

\* if (x) printf("%d %d", x);
K_if_printf == FormatLine(<<"i","f"," ","(","x",")"," ","p","r","i","n","t","f","(","\"","%","d"," ","%","d","\"",","," ","x",")",";">>, "printf", 7, 2, 1)

\* scanf("%d", &x);
K_scanf == FormatLine(<<"s","c","a","n","f","(","\"","%","d","\"",","," ","&","x",")",";">>, "scanf", 0, 1, 1)

\* void f(int *q) {
K_f_open == PlainLine(<<"v","o","i","d"," ","f","(","i","n","t"," ","*","q",")"," ","{">>)

\* for(;;) { }, indented by two blanks
K_for_ever_indented ==
    PlainLine(<<" "," ","f","o","r","(",";",";",")"," ","{"," ","}">>)

HeurLines ==
    {V_decl_x, V_assign_x, V_decl_p, V_load_p, V_main_open, V_close, K_f_open,
     K_for_ever, K_for_ever_indented, K_while_break, K_while_exit, K_for_decl,
     V_cmp_x,
     K_printf_few, K_printf_many, K_printf_percent, K_if_printf, K_scanf}

MaxHeurLines == 2

N_main_c == <<"m","a","i","n",".","c">>

\* int x = 1;
K_decl_x_init == PlainLine(<<"i","n","t"," ","x"," ","="," ","1",";">>)

\* {
K_block_open == PlainLine(<<"{">>)

\* int x; }
K_decl_x_close == PlainLine(<<"i","n","t"," ","x",";"," ","}">>)

\* a global that is assigned and then read
HeurFile_WriteThenRead == <<V_decl_x, V_assign_x, V_print_x>>

\* an initialized local, shadowed in an inner block by a local without
\* initializer, and read after the inner block
HeurFile_Shadow ==
    <<V_main_open, K_decl_x_init, K_block_open, V_decl_x, V_print_x, V_close,
      V_print_x, V_close>>

\* the same with the inner declaration on the line of the closing brace
HeurFile_DeclThenClose ==
    <<V_main_open, K_decl_x_init, K_block_open, K_decl_x_close, V_print_x, V_close>>

N_data == <<"d","a","t","a">>

\* int n;
K_decl_n ==
    CodeLine(<<"i","n","t"," ","n",";">>, << >>, <<Decl(N_n, 4, FALSE, FALSE, FALSE)>>,
             <<Ident(N_n, 4, "decl")>>, << >>)

\* void g(int *p) {
K_g_open ==
    FunctionLine("g", <<"v","o","i","d"," ","g","(","i","n","t"," ","*","p",")"," ","{">>,
                 <<Decl(N_p, 12, TRUE, FALSE, TRUE)>>, <<Ident(N_p, 12, "decl")>>)

\* int data[10];
K_decl_data ==
    CodeLine(<<"i","n","t"," ","d","a","t","a","[","1","0","]",";">>, << >>,
             <<Decl(N_data, 4, FALSE, FALSE, FALSE)>>, <<Ident(N_data, 4, "decl")>>, << >>)

\* int first(int data[]) {
K_first_open ==
    FunctionLine("first",
                 <<"i","n","t"," ","f","i","r","s","t","(","i","n","t"," ","d","a","t","a","[","]",")"," ","{">>,
                 <<Decl(N_data, 14, TRUE, FALSE, TRUE)>>, <<Ident(N_data, 14, "decl")>>)

\* return data[0];
K_return_data ==
    CodeLine(<<"r","e","t","u","r","n"," ","d","a","t","a","[","0","]",";">>, << >>, << >>,
             <<Ident(N_data, 7, "read")>>, <<Deref(N_data, 7)>>)

\* a function whose parameter has the name of a global without initializer,
\* and a use of the global after the function
HeurFile_Parameter == <<K_decl_n, V_f_param_open, V_return_n, V_close, V_return_n>>

\* the same with a pointer parameter that the body dereferences
HeurFile_PointerParameter == <<V_decl_p, K_g_open, V_load_p, V_close>>

\* the same with an array parameter
HeurFile_ArrayParameter == <<K_decl_data, K_first_open, K_return_data, V_close>>

N_buf == <<"b","u","f">>

\* scanf("%d", &x); with its argument
K_scanf_x_address == [K_scanf EXCEPT !.idents = <<Ident(N_x, 13, "write")>>]

\* scanf("%d", x);
K_scanf_x_value ==
    [FormatLine(<<"s","c","a","n","f","(","\"","%","d","\"",","," ","x",")",";">>, "scanf", 0, 1, 1)
        EXCEPT !.idents = <<Ident(N_x, 12, "read")>>]

\* char buf[8];
K_decl_buf ==
    CodeLine(<<"c","h","a","r"," ","b","u","f","[","8","]",";">>, << >>,
             <<Decl(N_buf, 5, FALSE, FALSE, FALSE)>>, <<Ident(N_buf, 5, "decl")>>, << >>)

\* scanf("%s", buf);
K_scanf_buf ==
    [FormatLine(<<"s","c","a","n","f","(","\"","%","s","\"",","," ","b","u","f",")",";">>, "scanf", 0, 1, 1)
        EXCEPT !.idents = <<Ident(N_buf, 12, "read")>>]

\* scanf("%c", c);
K_scanf_c ==
    [FormatLine(<<"s","c","a","n","f","(","\"","%","c","\"",","," ","c",")",";">>, "scanf", 0, 1, 1)
        EXCEPT !.idents = <<Ident(N_c, 12, "read")>>]

\* scanf into an int, with and without the address operator
HeurFile_ScanfInt == <<V_decl_x, K_scanf_x_address, K_scanf_x_value>>

\* scanf into a character array and into a single character
HeurFile_ScanfChars == <<K_decl_buf, T_decl_c, K_scanf_buf, K_scanf_c>>

N_y == <<"y">>

\* int y = x;
K_decl_y_from_x ==
    CodeLine(<<"i","n","t"," ","y"," ","="," ","x",";">>, << >>,
             <<Decl(N_y, 4, FALSE, TRUE, FALSE)>>,
             <<Ident(N_y, 4, "decl"), Ident(N_x, 8, "read")>>, << >>)

\* a global without initializer, read twice, assigned by a statement that
\* also reads it, and read again
HeurFile_UseUntilAssigned == <<V_decl_x, V_print_x, V_print_x, V_incr_x, V_print_x>>

\* a pointer without initializer, dereferenced, assigned, dereferenced again
HeurFile_WildUntilAssigned == <<V_decl_p, V_load_p, V_assign_p, V_load_p>>

\* a global without initializer as the initializer of the next declaration
HeurFile_UseInDeclaration == <<V_decl_x, K_decl_y_from_x, V_print_x>>

\* longer files of the heuristic scanner
HeurFiles ==
    {HeurFile_WriteThenRead, HeurFile_Shadow, HeurFile_DeclThenClose,
     HeurFile_Parameter, HeurFile_PointerParameter, HeurFile_ArrayParameter,
     HeurFile_ScanfInt, HeurFile_ScanfChars, HeurFile_UseUntilAssigned,
     HeurFile_WildUntilAssigned, HeurFile_UseInDeclaration}

\* the directories of the heuristic scanner: main.c with a few lines or with
\* one of the longer files, or avl_tree.c, or both
HeurDirectories ==
    { <<DirEntry(N_main_c, body)>> :
        body \in SeqsUpTo(HeurLines, MaxHeurLines) \cup HeurFiles }
        \cup {<<DirEntry(AvlTreeName, Content_Avl)>>,
              <<DirEntry(AvlTreeName, Content_Avl),
                DirEntry(N_main_c, Content_ScenarioInt)>>}

(***************************************************************************)
(* Inputs of the text fallback: a struct definition, its brace on the      *)
(* struct line or on the next line, with or without a nested struct, and   *)
(* with or without a function after it                                     *)
(***************************************************************************)
\* struct Node
X_struct == StructLine(<<"s","t","r","u","c","t"," ","N","o","d","e">>)

\* typedef struct {
X_typedef_open == StructLine(<<"t","y","p","e","d","e","f"," ","s","t","r","u","c","t"," ","{">>)

\* typedef struct
X_typedef == StructLine(<<"t","y","p","e","d","e","f"," ","s","t","r","u","c","t">>)

\* {
X_brace == PlainLine(<<"{">>)

\* struct {
X_nested_open == StructLine(<<"s","t","r","u","c","t"," ","{">>)

\* int a;
X_field_a == PlainLine(<<"i","n","t"," ","a",";">>)

\* } in;
X_nested_close == CloseLine("struct_close", <<"}"," ","i","n",";">>)

\* } Node;
X_close_named == CloseLine("struct_close", <<"}"," ","N","o","d","e",";">>)

StructOpenings ==
    {<<V_struct_open>>, <<X_struct, X_brace>>, <<X_typedef_open>>, <<X_typedef, X_brace>>}

StructBodies ==
    {<<V_decl_v>>,
     <<X_nested_open, X_field_a, X_nested_close, V_decl_v>>,
     <<V_decl_v, X_nested_open, X_field_a, X_nested_close>>}

StructClosings == {<<V_struct_close>>, <<X_close_named>>}

AfterStruct == {<< >>, <<V_main_open, V_decl_x, V_close>>}

TextFiles ==
    { o \o b \o c \o a :
        o \in StructOpenings, b \in StructBodies, c \in StructClosings, a \in AfterStruct }

(***************************************************************************)
(* State                                                                   *)
(***************************************************************************)
VARIABLES
    pc,                    \* position of the running program
    source,                \* the file under analysis: its lines
    libraryIssues,         \* result of libDetector.analyzeFile
    headerSpellingIssues,  \* result of libDetector.checkHeaderSpelling
    declarations,          \* declaration records of the last varDetector run
    varResults,            \* what each varDetector.analyzeFile call returned
    revision,              \* revision of the command line scanner in use
    directory,             \* the entries of the scanned directory
    files,                 \* analyzeDir: the .c files, to be analysed in order
    fileLog,               \* analyzeDir: per file done, what ran and what it added
    issues,                \* the issue list of the run
    output,                \* what has been printed
    exitCode,              \* process exit status, -1 while running
    scan,                  \* heuristic scanner: globals, localsStack, funcStack, braceDepth
    lineNo                 \* heuristic scanner: lines of the file scanned so far

libVars == <<libraryIssues, headerSpellingIssues>>

varVars == <<declarations, varResults>>

cliVars == <<revision, directory, files, fileLog, issues, output, exitCode>>

heurVars == <<scan, lineNo>>

vars == <<pc, source, libVars, varVars, cliVars, heurVars>>

LibIdle == libraryIssues = << >> /\ headerSpellingIssues = << >>

VarIdle == declarations = << >> /\ varResults = << >>

CliIdle ==
    /\ revision = "rich"
    /\ directory = << >>
    /\ files = << >>
    /\ fileLog = << >>
    /\ issues = << >>
    /\ output = << >>
    /\ exitCode = -1

HeurIdle ==
    /\ scan = [globals |-> << >>, localsStack |-> << >>, funcStack |-> << >>,
               braceDepth |-> 0]
    /\ lineNo = 0

(***************************************************************************)
(* The library detector on one file, called as analyzeDir calls it:        *)
(* analyzeFile, then checkHeaderSpelling.                                  *)
(***************************************************************************)
LibInit ==
    /\ pc = "lib.analyzeFile"
    /\ source \in SeqsUpTo(LibLines, MaxLibLines)
    /\ LibIdle
    /\ VarIdle
    /\ CliIdle
    /\ HeurIdle

LibDetector_analyzeFile ==
    /\ pc = "lib.analyzeFile"
    /\ libraryIssues' = LibAnalyzeFile(P_main, source)
    /\ pc' = "lib.checkHeaderSpelling"
    /\ UNCHANGED <<source, headerSpellingIssues, varVars, cliVars, heurVars>>

LibDetector_checkHeaderSpelling ==
    /\ pc = "lib.checkHeaderSpelling"
    /\ headerSpellingIssues' = checkHeaderSpelling(P_main, source)
    /\ pc' = "lib.done"
    /\ UNCHANGED <<source, libraryIssues, varVars, cliVars, heurVars>>

LibNext == LibDetector_analyzeFile \/ LibDetector_checkHeaderSpelling

SpecLib == LibInit /\ [][LibNext]_vars

(***************************************************************************)
(* The variable detector on one file: analyzeFile, called NumRuns times on *)
(* the same unmodified source.                                             *)
(***************************************************************************)
VarInit ==
    /\ pc = "var.analyzeFile"
    /\ source \in VarFiles
    /\ LibIdle
    /\ VarIdle
    /\ CliIdle
    /\ HeurIdle

VarDetector_analyzeFile ==
    /\ pc = "var.analyzeFile"
    /\ LET r == VarAnalyzeFile(P_main, source, declarations)
       IN  /\ varResults' = Append(varResults, r.issues)
           /\ declarations' = r.declarations
    /\ pc' = IF Len(varResults) + 1 >= NumRuns THEN "var.done" ELSE pc
    /\ UNCHANGED <<source, libVars, cliVars, heurVars>>

VarNext == VarDetector_analyzeFile

SpecVar == VarInit /\ [][VarNext]_vars

(***************************************************************************)
(* The command line scanner on one directory: main calls analyzeDir, which *)
(* lists the directory and analyses the .c files in order, then reports.   *)
(***************************************************************************)
CliInit ==
    /\ pc = "cli.main"
    /\ revision \in {"rich", "minimal"}
    /\ directory \in Directories
    /\ files = << >>
    /\ fileLog = << >>
    /\ issues = << >>
    /\ output = << >>
    /\ exitCode = -1
    /\ source = << >>
    /\ LibIdle
    /\ VarIdle
    /\ HeurIdle

\* main up to the directory listing of analyzeDir (lines 399-405, 22-24);
\* readdirSync either lists the directory or throws
AnalyzeDir_readdir ==
    /\ pc = "cli.main"
    /\ \E listing \in {"ok", "throws"} :
        IF listing = "ok"
        THEN /\ files' = SelectSeq(directory, LAMBDA e : IsCFile(e.name))
             /\ pc' = "cli.files"
        ELSE /\ files' = files
             /\ pc' = "cli.dirFallback"
    /\ output' = Append(output, Printed("scanning", NoIssue))
    /\ UNCHANGED <<source, libVars, varVars, heurVars, revision, directory,
                   fileLog, issues, exitCode>>

\* the loop without the per-file try: an exception in one file reaches the
\* catch clause of analyzeDir
AnalyzeDir_file_NoFileCatch ==
    /\ pc = "cli.files"
    /\ Len(fileLog) < Len(files)
    /\ \E outcome \in {"ok", "constructFails", "readFails"} :
        LET entry == files[Len(fileLog) + 1]
            filePath == PathJoin(SamplesDir, entry.name)
            r == FileContribution(revision, outcome, filePath, entry.lines)
        IN  /\ issues' = issues \o r.issues
            /\ fileLog' = Append(fileLog,
                   [file |-> filePath, outcome |-> outcome, astRan |-> r.astRan,
                    fallbackRan |-> r.fallbackRan, issues |-> r.issues])
            /\ pc' = IF r.astRan \/ r.fallbackRan THEN pc ELSE "cli.dirFallback"
    /\ UNCHANGED <<source, libVars, varVars, heurVars, revision, directory,
                   files, output, exitCode>>

\* one iteration of the loop over the files (lines 26-96)
AnalyzeDir_file ==
    /\ pc = "cli.files"
    /\ Len(fileLog) < Len(files)
    /\ \E outcome \in {"ok", "constructFails", "readFails"} :
        LET entry == files[Len(fileLog) + 1]
            filePath == PathJoin(SamplesDir, entry.name)
            r == FileContribution(revision, outcome, filePath, entry.lines)
        IN  /\ issues' = issues \o r.issues
            /\ fileLog' = Append(fileLog,
                   [file |-> filePath, outcome |-> outcome, astRan |-> r.astRan,
                    fallbackRan |-> r.fallbackRan, issues |-> r.issues])
    /\ UNCHANGED <<pc, source, libVars, varVars, heurVars, revision, directory,
                   files, output, exitCode>>

\* analyzeDir returns issues (line 104)
AnalyzeDir_return ==
    /\ pc = "cli.files"
    /\ Len(fileLog) = Len(files)
    /\ pc' = "cli.report"
    /\ UNCHANGED <<source, libVars, varVars, cliVars, heurVars>>

\* the catch clause of analyzeDir (lines 98-102): fallbackTextAnalysisForDir
\* lists the directory again and reads every .c file; if readdirSync or one
\* readFileSync throws, main's catch clause ends the process with status 1
AnalyzeDir_dirFallback ==
    /\ pc = "cli.dirFallback"
    /\ \E listing \in {"ok", "readdirThrows"}
                       \cup {"readFileThrows" : e \in {x \in Range(directory) : IsCFile(x.name)}} :
        IF listing = "ok"
        THEN /\ issues' = DirFallbackIssues(revision, SamplesDir, directory)
             /\ pc' = "cli.report"
             /\ exitCode' = exitCode
        ELSE /\ issues' = issues
             /\ pc' = "cli.done"
             /\ exitCode' = 1
    /\ UNCHANGED <<source, libVars, varVars, heurVars, revision, directory,
                   files, fileLog, output>>

\* main after analyzeDir (lines 407-413)
Main_report ==
    /\ pc = "cli.report"
    /\ output' = output \o MainReport(Cwd, issues)
    /\ exitCode' = 0
    /\ pc' = "cli.done"
    /\ UNCHANGED <<source, libVars, varVars, heurVars, revision, directory,
                   files, fileLog, issues>>

CliNext ==
    \/ AnalyzeDir_readdir
    \/ AnalyzeDir_file
    \/ AnalyzeDir_return
    \/ AnalyzeDir_dirFallback
    \/ Main_report

SpecCli == CliInit /\ [][CliNext]_vars

(***************************************************************************)
(* The heuristic scanner on one directory: main calls analyzeDirHeuristic, *)
(* which lists the directory and scans the .c files line by line, then     *)
(* reports.  Nothing in analyzeDirHeuristic catches: a failing readdirSync *)
(* or readFileSync ends the process with status 1.                         *)
(***************************************************************************)
HeurInit ==
    /\ pc = "heur.main"
    /\ revision = "heuristic"
    /\ directory \in HeurDirectories
    /\ files = << >>
    /\ fileLog = << >>
    /\ issues = << >>
    /\ output = << >>
    /\ exitCode = -1
    /\ source = << >>
    /\ LibIdle
    /\ VarIdle
    /\ HeurIdle

\* main up to the directory listing (lines 311-316, 23)
Heuristic_readdir ==
    /\ pc = "heur.main"
    /\ output' = Append(output, Printed("scanning", NoIssue))
    /\ \E listing \in {"ok", "throws"} :
        IF listing = "ok"
        THEN /\ files' = SelectSeq(directory, LAMBDA e : IsCFile(e.name))
             /\ pc' = "heur.files"
             /\ exitCode' = exitCode
        ELSE /\ files' = files
             /\ pc' = "heur.done"
             /\ exitCode' = 1
    /\ UNCHANGED <<source, libVars, varVars, heurVars, revision, directory,
                   fileLog, issues>>

\* lines 26-34: the next file is read and the scan state is set up
Heuristic_readFile ==
    /\ pc = "heur.files"
    /\ Len(fileLog) < Len(files)
    /\ \E reading \in {"ok", "throws"} :
        IF reading = "ok"
        THEN /\ source' = files[Len(fileLog) + 1].lines
             /\ scan' = [globals |-> << >>, localsStack |-> << >>,
                         funcStack |-> << >>, braceDepth |-> 0]
             /\ lineNo' = 0
             /\ pc' = "heur.lines"
             /\ exitCode' = exitCode
        ELSE /\ UNCHANGED <<source, scan, lineNo>>
             /\ pc' = "heur.done"
             /\ exitCode' = 1
    /\ UNCHANGED <<libVars, varVars, revision, directory, files, fileLog,
                   issues, output>>

\* one iteration of the loop over the lines (lines 136-286)
Heuristic_line ==
    /\ pc = "heur.lines"
    /\ lineNo < Len(source)
    /\ \E st \in {ScanLine([globals |-> scan.globals,
                            localsStack |-> scan.localsStack,
                            funcStack |-> scan.funcStack,
                            braceDepth |-> scan.braceDepth,
                            issues |-> issues],
                           PathJoin(SamplesDir, files[Len(fileLog) + 1].name),
                           source[lineNo + 1].text, lineNo)} :
           /\ scan' = [globals |-> st.globals, localsStack |-> st.localsStack,
                       funcStack |-> st.funcStack, braceDepth |-> st.braceDepth]
           /\ issues' = st.issues
    /\ lineNo' = lineNo + 1
    /\ UNCHANGED <<pc, source, libVars, varVars, revision, directory, files,
                   fileLog, output, exitCode>>

\* the end of the lines of a file: on to the next file
Heuristic_endOfFile ==
    /\ pc = "heur.lines"
    /\ lineNo = Len(source)
    /\ fileLog' = Append(fileLog,
           [file |-> PathJoin(SamplesDir, files[Len(fileLog) + 1].name),
            outcome |-> "ok", astRan |-> FALSE, fallbackRan |-> FALSE,
            issues |-> << >>])
    /\ pc' = "heur.files"
    /\ UNCHANGED <<source, libVars, varVars, heurVars, revision, directory,
                   files, issues, output, exitCode>>

\* analyzeDirHeuristic returns; main reports (lines 318-324)
Heuristic_report ==
    /\ pc = "heur.files"
    /\ Len(fileLog) = Len(files)
    /\ output' = output \o MainReport_Heuristic(Cwd, issues)
    /\ exitCode' = 0
    /\ pc' = "heur.done"
    /\ UNCHANGED <<source, libVars, varVars, heurVars, revision, directory,
                   files, fileLog, issues>>

HeurNext ==
    \/ Heuristic_readdir
    \/ Heuristic_readFile
    \/ Heuristic_line
    \/ Heuristic_endOfFile
    \/ Heuristic_report

SpecHeur == HeurInit /\ [][HeurNext]_vars

(***************************************************************************)
(* fallbackTextAnalysis on one file, for each revision of it               *)
(***************************************************************************)
TextInit ==
    /\ pc = "text.fallbackTextAnalysis"
    /\ revision \in {"rich", "minimal"}
    /\ source \in TextFiles
    /\ directory = << >>
    /\ files = << >>
    /\ fileLog = << >>
    /\ issues = << >>
    /\ output = << >>
    /\ exitCode = -1
    /\ LibIdle
    /\ VarIdle
    /\ HeurIdle

Text_fallbackTextAnalysis ==
    /\ pc = "text.fallbackTextAnalysis"
    /\ issues' = fallbackTextAnalysis(revision, P_main, SourceLines(source))
    /\ pc' = "text.done"
    /\ UNCHANGED <<source, libVars, varVars, heurVars, revision, directory,
                   files, fileLog, output, exitCode>>

TextNext == Text_fallbackTextAnalysis

SpecText == TextInit /\ [][TextNext]_vars

Init == LibInit \/ VarInit \/ CliInit \/ HeurInit \/ TextInit

Next == LibNext \/ VarNext \/ CliNext \/ HeurNext \/ TextNext

Spec == Init /\ [][Next]_vars

(***************************************************************************)
(* Claims about the library detector (checked under SpecLib)               *)
(***************************************************************************)
LibAnalyzed == pc \in {"lib.checkHeaderSpelling", "lib.done"}

LibSpellChecked == pc = "lib.done"

IncludedHeaderNames ==
    UNION { { source[i].incl[c].headerName : c \in 1..Len(source[i].incl) } :
            i \in 1..Len(source) }

\* the Header issues reported for the call c of line i
HeaderIssuesOfCall(i, c) ==
    { k \in 1..Len(libraryIssues) :
        /\ libraryIssues[k].category = "Header"
        /\ libraryIssues[k].line = i
        /\ libraryIssues[k].column = source[i].calls[c].column
        /\ libraryIssues[k].message.fn = source[i].calls[c].name }

\* C3: every call to a tabulated function gets exactly one Header issue, at
\* the line of the call and naming all acceptable headers, when none of its
\* acceptable headers is included, and none when one is included; a call to
\* a name outside the table gets none.
C3_HeaderIssuePerCall ==
    LibAnalyzed =>
        \A i \in 1..Len(source) : \A c \in 1..Len(source[i].calls) :
            LET name == source[i].calls[c].name
                acceptable == STANDARD_LIBRARY_FUNCTIONS(name).headers
                hits == HeaderIssuesOfCall(i, c)
            IN  IF name \in TableNames /\ Range(acceptable) \cap IncludedHeaderNames = {}
                THEN /\ Cardinality(hits) = 1
                     /\ \A k \in hits : libraryIssues[k].message.headers = acceptable
                ELSE hits = {}

\* the HeaderSpelling issues reported for the include c of line i
SpellIssuesOfInclude(i, c) ==
    { k \in 1..Len(headerSpellingIssues) :
        /\ headerSpellingIssues[k].category = "HeaderSpelling"
        /\ headerSpellingIssues[k].line = i
        /\ headerSpellingIssues[k].message.name = source[i].incl[c].headerName }

\* distance of a header name to every whitelist entry, as written
RawDistances(name) ==
    [k \in 1..Len(standardHeaders) |->
        levenshteinDistance(name, standardHeaders[k])]

\* the same with both names in lower case
LowerCaseDistances(name) ==
    [k \in 1..Len(standardHeaders) |->
        levenshteinDistance(ToLowerCase(name), ToLowerCase(standardHeaders[k]))]

\* suggestion is the first whitelist entry at the minimum distance d when
\* that minimum is at most 2, and no suggestion otherwise
IsClosestWithin2(suggestion, d) ==
    IF \E k \in DOMAIN d : d[k] <= 2
    THEN \E k \in DOMAIN d :
            /\ suggestion = <<standardHeaders[k]>>
            /\ d[k] <= 2
            /\ \A m \in DOMAIN d : d[m] >= d[k]
            /\ \A m \in DOMAIN d : m < k => d[m] > d[k]
    ELSE suggestion = << >>

SpellingClaim(Distances(_)) ==
    LibSpellChecked =>
        \A i \in 1..Len(source) : \A c \in 1..Len(source[i].incl) :
            LET inc == source[i].incl[c]
                hits == SpellIssuesOfInclude(i, c)
            IN  IF inc.isSystemHeader /\ inc.headerName \notin Range(standardHeaders)
                THEN /\ Cardinality(hits) = 1
                     /\ \A k \in hits :
                            IsClosestWithin2(headerSpellingIssues[k].message.headers,
                                             Distances(inc.headerName))
                ELSE hits = {}

\* C4 as stated: the suggestion for an angle-bracket include outside the
\* whitelist is the first whitelist entry at minimum edit distance when that
\* distance is at most 2, and there is none when no entry is within 2;
\* quoted and whitelisted includes get no HeaderSpelling issue.
C4_ClosestByEditDistance == SpellingClaim(RawDistances)

\* C4 amended: the same, with the edit distance taken between the
\* lower-cased names.
C4_ClosestByLowerCaseDistance == SpellingClaim(LowerCaseDistances)

\* a tie at the minimum (cctype.h: ctype.h and wctype.h at distance 1) and a
\* name that only differs in case (MATH.H) were both given a suggestion
C4_Witness ==
    /\ LibSpellChecked
    /\ \E k \in 1..Len(headerSpellingIssues) :
            /\ headerSpellingIssues[k].message.name = H_cctype
            /\ headerSpellingIssues[k].message.headers = <<H_ctype>>
    /\ \E k \in 1..Len(headerSpellingIssues) :
            /\ headerSpellingIssues[k].message.name = H_MATH
            /\ headerSpellingIssues[k].message.headers = <<H_math>>


(***************************************************************************)
(* Claims about the variable detector (checked under SpecVar)              *)
(***************************************************************************)
VarAnalyzed == pc \in {"var.analyzeFile", "var.done"} /\ Len(varResults) >= 1

SourceDeclarations == CASTParser_extractVariableDeclarations(source)

\* how many elements of the sequence satisfy the test
CountIssues(list, Keep(_)) ==
    Cardinality({ k \in 1..Len(list) : Keep(list[k]) })

\* the occurrences of a name that are not a declaration of it
OccurrenceAccesses(name) ==
    UNION { { source[i].idents[k].access :
                k \in { j \in 1..Len(source[i].idents) :
                          /\ source[i].idents[j].name = name
                          /\ source[i].idents[j].access # "decl" } } :
            i \in 1..Len(source) }

DeclaredOnce(name) ==
    Cardinality({ k \in 1..Len(SourceDeclarations) :
                    SourceDeclarations[k].name = name }) = 1

\* the declarations the claim is about: no initializer, not a parameter, not
\* a member of a struct, and the only declaration of that name in the file
UninitializedDeclarations ==
    { k \in 1..Len(SourceDeclarations) :
        /\ ~ SourceDeclarations[k].isInitialized
        /\ ~ SourceDeclarations[k].isParameter
        /\ ~ InStructBody(source, SourceDeclarations[k].position.row + 1)
        /\ DeclaredOnce(SourceDeclarations[k].name) }

UninitializedIssuesFor(name) ==
    CountIssues(varResults[1],
                LAMBDA issue : /\ issue.category = "Uninitialized"
                               /\ issue.message.name = name)

\* C1: for every declaration without initializer that is neither a parameter
\* nor a struct field: if its name is read somewhere and written nowhere in
\* the file, analyzeFile returns at least one Uninitialized issue for it; if
\* every occurrence besides the declaration is a write, it returns none.
C1_UninitializedIffReadWithoutWrite ==
    (VarAnalyzed /\ ~ CASTParser_parseThrows(source)) =>
        \A k \in UninitializedDeclarations :
            LET name == SourceDeclarations[k].name
                accesses == OccurrenceAccesses(name)
            IN  /\ ("read" \in accesses /\ "write" \notin accesses)
                       => UninitializedIssuesFor(name) >= 1
                /\ accesses \subseteq {"write"}
                       => UninitializedIssuesFor(name) = 0

\* pointer declarations whose declaration line assigns NULL or 0
NullPointerDeclarations ==
    { k \in 1..Len(SourceDeclarations) :
        /\ SourceDeclarations[k].isPointer
        /\ isNullInitialized(
               source[SourceDeclarations[k].position.row + 1].text) }

\* the dereference sites of a name: [row, column]
DereferenceSites(name) ==
    { CASTParser_findPointerDereferences(source, name)[k] :
        k \in 1..Len(CASTParser_findPointerDereferences(source, name)) }

NullPointerIssuesAt(name, site) ==
    CountIssues(varResults[1],
                LAMBDA issue : /\ issue.category = "NullPointer"
                               /\ issue.message.name = name
                               /\ issue.line = site.row + 1
                               /\ issue.column = site.column)

\* C2: for every pointer declaration whose line assigns NULL or 0, each
\* dereference site of the name on a strictly later line has exactly one
\* NullPointer issue at that line; a site that is on no later line than the
\* declarations of the name has none.
C2_OneNullPointerPerLaterSite ==
    (VarAnalyzed /\ ~ CASTParser_parseThrows(source)) =>
        \A k \in NullPointerDeclarations :
            LET d == SourceDeclarations[k]
            IN  \A site \in DereferenceSites(d.name) :
                    /\ site.row > d.position.row
                           => NullPointerIssuesAt(d.name, site) = 1
                    /\ (\A m \in NullPointerDeclarations :
                            SourceDeclarations[m].name = d.name
                                => site.row <= SourceDeclarations[m].position.row)
                           => NullPointerIssuesAt(d.name, site) = 0

ListedFiles == SelectSeq(directory, LAMBDA e : IsCFile(e.name))

IsScenario(lines) == lines \in {Content_ScenarioInt, Content_ScenarioChar}

\* the tier that analysed the k-th .c file of the directory, once analyzeDir
\* is over: "ast", "text" or "none"
TierOf(k) ==
    IF files = << >>
    THEN "text"
    ELSE IF fileLog[k].outcome = "constructFails" THEN "text"
    ELSE IF fileLog[k].astRan THEN "ast"
    ELSE "none"

IssuesOfFile(k) ==
    SelectSeq(issues,
              LAMBDA issue : issue.file = PathJoin(SamplesDir, ListedFiles[k].name))

UninitializedAt(list, line) ==
    CountIssues(list, LAMBDA issue : /\ issue.category = "Uninitialized"
                                     /\ issue.line = line)

HeaderStdioAt(list, line) ==
    CountIssues(list, LAMBDA issue : /\ issue.category = "Header"
                                     /\ issue.line = line
                                     /\ H_stdio \in Range(issue.message.headers))

AnalyzeDirOver == pc \in {"cli.report", "cli.done"} /\ exitCode # 1

DeclarationKeywords ==
    [rich |-> {<<"i","n","t">>,
              <<"c","h","a","r">>,
              <<"f","l","o","a","t">>,
              <<"d","o","u","b","l","e">>,
              <<"l","o","n","g">>,
              <<"s","h","o","r","t">>},
     minimal |-> {<<"i","n","t">>}]

\* does line 1 of the file start with one of the type keywords
DeclaresOneOf(lines, keywords) ==
    \E t \in keywords : StartsWith(lines[1].text, t \o <<" ">>)

ReportedIssues ==
    LET printed == SelectSeq(output, LAMBDA o : o.t = "issue")
    IN  [k \in 1..Len(printed) |-> printed[k].issue]

\* an issue of the file named avl_tree.c at line 7, 8 or 16
IsAvlTreeIssue(issue) ==
    /\ issue.file = PathJoin(SamplesDir, AvlTreeName)
    /\ issue.line \in {7, 8, 16}

ExpectedReport ==
    LET kept == SelectSeq(issues, LAMBDA issue : ~ IsAvlTreeIssue(issue))
    IN  [k \in 1..Len(kept) |->
            [kept[k] EXCEPT !.file = PathRelative(Cwd, kept[k].file)]]

\* C10: a file whose parser or detectors cannot be constructed gets no AST
\* detector and adds exactly the result of the per-file text fallback; the
\* loop goes on to the next file; a file whose construction succeeds does
\* not get the text fallback.
C10_ConstructionFailureFallsBack ==
    /\ \A k \in 1..Len(fileLog) :
        LET e == fileLog[k]
        IN  /\ e.file = PathJoin(SamplesDir, files[k].name)
            /\ e.outcome = "constructFails" =>
                /\ ~ e.astRan
                /\ e.issues = fallbackTextAnalysis(revision, e.file,
                                                   SourceLines(files[k].lines))
            /\ e.outcome = "ok" =>
                /\ ~ e.fallbackRan
                /\ \A i \in 1..Len(e.issues) :
                       e.issues[i].message.kind \notin
                           {"declaredWithoutInitialization", "usedWithoutHeader"}
    /\ pc \in {"cli.files", "cli.report", "cli.done"} =>
           issues = Flatten([k \in 1..Len(fileLog) |-> fileLog[k].issues])
                        \/ files = << >>
    /\ (pc \in {"cli.report", "cli.done"} /\ files # << >>) =>
           Len(fileLog) = Len(files)

\* a run in which construction failed for one file, which got issues from
\* the text fallback, and succeeded for a later one, which got issues from
\* the detectors
C10_Witness ==
    /\ pc = "cli.done"
    /\ \E k, m \in 1..Len(fileLog) :
        /\ k < m
        /\ fileLog[k].outcome = "constructFails"
        /\ fileLog[k].fallbackRan
        /\ fileLog[k].issues # << >>
        /\ fileLog[m].outcome = "ok"
        /\ fileLog[m].astRan
        /\ fileLog[m].issues # << >>

(***************************************************************************)
(* Claims about the heuristic scanner and about reporting (checked under   *)
(* SpecHeur)                                                               *)
(***************************************************************************)
\* the lines of the files scanned so far: [file, line, text, format]
ScannedLines ==
    UNION { { [file |-> PathJoin(SamplesDir, files[f].name), line |-> i,
               text |-> files[f].lines[i].text,
               format |-> files[f].lines[i].format] :
                i \in 1..(IF f <= Len(fileLog) THEN Len(files[f].lines) ELSE lineNo) } :
            f \in 1..Min2(Len(files), Len(fileLog) + 1) }

\* the scan visits a line unless it is blank or a preprocessor line
IsVisited(text) == Trim(text) # << >> /\ ~ StartsWith(Trim(text), <<"#">>)

IssuesAtLine(l, category, kinds) ==
    CountIssues(issues, LAMBDA issue : /\ issue.file = l.file
                                       /\ issue.line = l.line
                                       /\ issue.category = category
                                       /\ issue.message.kind \in kinds)

\* the line contains for(;;), while(1) or while(true)
ContainsEndlessLoop(text) == Test(ReForEver, text) \/ Test(ReWhileTrue, text)

\* the line contains break, return or exit(
ContainsLoopExit(text) ==
    \/ Test(Cat(<<WordB, Lit(<<"b","r","e","a","k">>), WordB>>), text)
    \/ Test(Cat(<<WordB, Lit(<<"r","e","t","u","r","n">>), WordB>>), text)
    \/ Test(Cat(<<WordB, Lit(<<"e","x","i","t">>), Star(ReSpace), Lit(<<"(">>)>>), text)

InHeuristicScan == pc \in {"heur.files", "heur.lines", "heur.done"}

\* C8: every scanned line with for(;;), while(1) or while(true) and without
\* break, return or exit( on the same line has exactly one infinite-loop
\* issue; such a line with one of these exits has none.
C8_InfiniteLoopPerLine ==
    InHeuristicScan =>
        \A l \in ScannedLines :
            (IsVisited(l.text) /\ ContainsEndlessLoop(l.text)) =>
                IssuesAtLine(l, "Infinite loop", {"noExplicitExit"})
                    = IF ContainsLoopExit(l.text) THEN 0 ELSE 1

\* C9: a printf/scanf call line with k conversion specifiers and n arguments
\* after the format has exactly one too-few issue iff n < k, exactly one
\* too-many issue iff n > k, and neither when n = k.
C9_FormatArgumentCount ==
    InHeuristicScan =>
        \A l \in ScannedLines :
            l.format # << >> =>
                /\ IssuesAtLine(l, "Format", {"tooFewArguments"})
                       = IF l.format[1].arguments < l.format[1].specifiers
                         THEN 1 ELSE 0
                /\ IssuesAtLine(l, "Format", {"tooManyArguments"})
                       = IF l.format[1].arguments > l.format[1].specifiers
                         THEN 1 ELSE 0

\* C6: whatever mode found the issues, no issue of the file named avl_tree.c
\* at line 7, 8 or 16 is printed; every other issue is printed, in the order
\* found.
C6_AvlTreeLinesSuppressed ==
    (pc \in {"cli.done", "heur.done"} /\ exitCode = 0) =>
        ReportedIssues = ExpectedReport

(***************************************************************************)
(* Claims about failures in the command line scanner (checked under        *)
(* SpecCli)                                                                *)
(***************************************************************************)
\* the parser and the detectors of the k-th file were constructed and
\* CASTParser.parse threw on the file
ParseFailed(k) ==
    fileLog[k].outcome = "ok" /\ CASTParser_parseThrows(files[k].lines)

\* C11: a file on which the parser throws after the parser and the detectors
\* were constructed is analysed by the text fallback: the issues of the
\* fallback for the file are what the file adds to the result, and the run
\* is not ended by the failure.
C11_ParseFailureFallsBack ==
    /\ \A k \in 1..Len(fileLog) :
        ParseFailed(k) =>
            /\ fileLog[k].fallbackRan
            /\ fileLog[k].issues =
                   fallbackTextAnalysis(revision, fileLog[k].file,
                                        SourceLines(files[k].lines))
    /\ (pc = "cli.done" /\ files # << >>) => exitCode = 0

\* the k-th entry of log is a file whose analysis ended in the per-file
\* catch clause: readFileSync threw, or the parser threw
FileFailed(log, k) ==
    \/ log[k].outcome = "readFails"
    \/ log[k].outcome = "ok" /\ CASTParser_parseThrows(files[k].lines)

TextScansInListingOrder ==
    Flatten([k \in 1..Len(ListedFiles) |->
        fallbackTextAnalysis(revision, PathJoin(SamplesDir, ListedFiles[k].name),
                             SourceLines(ListedFiles[k].lines))])

\* C13: the directory fallback is entered only from the failed listing of
\* analyzeDir, hence at most once; when it succeeds the issues of the run
\* are the per-file text scans in listing order and the run goes on to the
\* report and exits 0; when it fails the run ends with exit status 1 and
\* nothing more is printed; the status 1 arises in no other way, and a run
\* that reaches the report exits 0.
C13_DirectoryFallbackOnce ==
    [][/\ pc' = "cli.dirFallback" => pc = "cli.main"
       /\ pc = "cli.dirFallback" =>
             \/ /\ pc' = "cli.report"
                /\ issues' = TextScansInListingOrder
                /\ exitCode' = -1
             \/ /\ pc' = "cli.done"
                /\ exitCode' = 1
                /\ output' = output
       /\ pc = "cli.report" =>
             /\ pc' = "cli.done"
             /\ exitCode' = 0
             /\ issues' = issues
       /\ (exitCode' = 1 /\ exitCode # 1) => pc = "cli.dirFallback"]_vars

\* a run whose listing failed and whose directory fallback succeeded on two
\* files that both have issues
C13_Witness ==
    /\ pc = "cli.done"
    /\ exitCode = 0
    /\ fileLog = << >>
    /\ Len(ListedFiles) = 2
    /\ issues = TextScansInListingOrder
    /\ \E i, j \in 1..Len(issues) :
          /\ i < j
          /\ issues[i].file = PathJoin(SamplesDir, ListedFiles[1].name)
          /\ issues[j].file = PathJoin(SamplesDir, ListedFiles[2].name)

\* how many lines of kind t the run has printed
PrintedCount(t) == Len(SelectSeq(output, LAMBDA o : o.t = t))

\* C14: a run that completes normally has printed at least one issue entry
\* or the 'no problems' message, not both and not neither, and the
\* capability banner once, as the last thing.
C14_IssuesOrNoProblemsThenBanner ==
    (pc = "cli.done" /\ exitCode = 0) =>
        /\ (PrintedCount("issue") >= 1) # (PrintedCount("noProblems") = 1)
        /\ PrintedCount("noProblems") <= 1
        /\ PrintedCount("tables") = 1
        /\ output[Len(output)].t = "tables"

(***************************************************************************)
(* Further claims about the variable detector (checked under SpecVar)      *)
(***************************************************************************)
\* the sites findVariableUsages returns for a name: [row, column]
UsageSites(name) ==
    { CASTParser_findVariableUsages(source, name)[k] :
        k \in 1..Len(CASTParser_findVariableUsages(source, name)) }

\* the declarations of a name that checkVariableUsage goes through (no
\* initializer, not a parameter) and that lie on a line before the row
CheckedDeclarationsBefore(name, row) ==
    { k \in 1..Len(SourceDeclarations) :
        /\ SourceDeclarations[k].name = name
        /\ ~ SourceDeclarations[k].isInitialized
        /\ ~ SourceDeclarations[k].isParameter
        /\ SourceDeclarations[k].position.row < row }

\* the issues of the first run with that message kind for the name at a site
IssuesAtSite(kind, name, site) ==
    CountIssues(varResults[1],
                LAMBDA issue : /\ issue.message.kind = kind
                               /\ issue.message.name = name
                               /\ issue.line = site.row + 1
                               /\ issue.column = site.column)

DeclaredNames == { SourceDeclarations[k].name : k \in 1..Len(SourceDeclarations) }

\* C15: an occurrence on a line before a declaration of its name is not
\* considered for that declaration.  So a usage site has at most one
\* Uninitialized issue per checked declaration of the name on an earlier
\* line, a dereference site at most one pointer issue per such pointer
\* declaration, and a declaration whose isInitialized flag was set by the
\* scan has an occurrence of its name on a later line.
C15_NothingBeforeTheDeclaration ==
    (VarAnalyzed /\ ~ CASTParser_parseThrows(source)) =>
        /\ \A name \in DeclaredNames :
            /\ \A site \in UsageSites(name) :
                   IssuesAtSite("usedBeforeInitialization", name, site)
                       <= Cardinality(CheckedDeclarationsBefore(name, site.row))
            /\ \A site \in DereferenceSites(name) :
                   IssuesAtSite("wildPointerDereference", name, site)
                       <= Cardinality(
                              { k \in CheckedDeclarationsBefore(name, site.row) :
                                  SourceDeclarations[k].isPointer })
        /\ \A k \in 1..Len(declarations) :
               (declarations[k].isInitialized
                    /\ ~ GroupedByScope(SourceDeclarations)[k].isInitialized)
                   => \E site \in UsageSites(declarations[k].name) :
                          site.row > declarations[k].position.row

(***************************************************************************)
(* Claims about the issues of a run, whichever scanner produced them       *)
(***************************************************************************)
\* the lines of the file an issue names; << >> when the directory has no
\* such file
LinesOfFile(path) ==
    LET named == SelectSeq(directory, LAMBDA e : PathJoin(SamplesDir, e.name) = path)
    IN  IF named = << >> THEN << >> ELSE SourceLines(named[1].lines)

\* C16: every issue has a line number between 1 and the number of lines of
\* the file it names, and its codeLine is the trimmed text of that line.
C16_LineInFileAndCodeLineTrimmed ==
    \A k \in 1..Len(issues) :
        LET sourceLines == LinesOfFile(issues[k].file)
        IN  /\ issues[k].line >= 1
            /\ issues[k].line <= Len(sourceLines)
            /\ issues[k].codeLine = Trim(sourceLines[issues[k].line])

(***************************************************************************)
(* Claims about the text fallback (checked under SpecText)                 *)
(***************************************************************************)
\* how many struct bodies are open at line i: the struct specifiers begun
\* on an earlier line less the ones closed up to line i
StructDepthAt(lines, i) ==
    Cardinality({ j \in 1..(i - 1) : lines[j].kind = "struct_open" })
        - Cardinality({ j \in 1..i : lines[j].kind = "struct_close" })

\* C17: fallbackTextAnalysis reports no Uninitialized issue at a line inside
\* the body of a struct or typedef struct definition, with the opening brace
\* on the struct line or on the next one, and with nested braces.
C17_NoUninitializedInStructBody ==
    pc = "text.done" =>
        \A k \in 1..Len(issues) :
            issues[k].category = "Uninitialized"
                => StructDepthAt(source, issues[k].line) = 0

\* the pointer declarations without initializer that checkVariableUsage
\* scans: indices into declarations
ScannedPointerDeclarations ==
    { k \in 1..Len(declarations) :
        /\ declarations[k].isPointer
        /\ ~ GroupedByScope(SourceDeclarations)[k].isInitialized
        /\ ~ declarations[k].isParameter
        /\ ~ isStructField(SourceLines(source), declarations[k].position.row) }

\* the issues of the first run of a category for the name at a site
CategoryIssuesAt(category, name, site) ==
    CountIssues(varResults[1],
                LAMBDA issue : /\ issue.category = category
                               /\ issue.message.name = name
                               /\ issue.line = site.row + 1
                               /\ issue.column = site.column)

\* C18: for a pointer declaration without initializer whose isInitialized
\* flag is still false after the usage scan, every dereference site of the
\* name off the declaration line has an issue of category WildPointer; if
\* the name is written anywhere in the file, no dereference site has one.
C18_WildPointerByFinalFlag ==
    (VarAnalyzed /\ ~ CASTParser_parseThrows(source)) =>
        \A k \in ScannedPointerDeclarations :
            LET d == declarations[k]
            IN  \A site \in DereferenceSites(d.name) :
                    /\ (~ d.isInitialized /\ site.row # d.position.row)
                           => CategoryIssuesAt("WildPointer", d.name, site) >= 1
                    /\ "write" \in OccurrenceAccesses(d.name)
                           => CategoryIssuesAt("WildPointer", d.name, site) = 0

(***************************************************************************)
(* Claims about both engines (checked under Spec)                          *)
(***************************************************************************)
\* is the occurrence of the name at column col of the line followed by an
\* assignment operator: =, +=, -=, *=, /= or %=, and not ==
FollowedByAssignment(text, name, col) ==
    LET rest == TrimStart(SliceFrom(text, col + Len(name)))
    IN  \/ /\ Len(rest) >= 1
           /\ rest[1] = "="
           /\ ~ (Len(rest) >= 2 /\ rest[2] = "=")
        \/ /\ Len(rest) >= 2
           /\ rest[1] \in {"+", "-", "*", "/", "%"}
           /\ rest[2] = "="

\* the names a line reads without assigning to them
ReadOnlyNames(line) ==
    { line.idents[k].name : k \in { j \in 1..Len(line.idents) :
                                      line.idents[j].access = "read" } }
        \ { line.idents[k].name : k \in { j \in 1..Len(line.idents) :
                                            line.idents[j].access = "write" } }

\* C19: an occurrence is a write exactly when an assignment operator
\* follows it, and never when a comparison operator does.  AST analyzer: a
\* usage site of a variable declared once without initializer has no
\* Uninitialized issue if an assignment operator follows and one otherwise.
\* Heuristic scanner: a line that only reads a global declared without
\* initializer on the line before leaves it uninitialized and is reported.
C19_WriteIffAssignmentOperator ==
    /\ (VarAnalyzed /\ ~ CASTParser_parseThrows(source)) =>
        \A k \in UninitializedDeclarations :
            LET d == SourceDeclarations[k]
            IN  \A site \in UsageSites(d.name) :
                    site.row # d.position.row =>
                        IssuesAtSite("usedBeforeInitialization", d.name, site)
                            = IF FollowedByAssignment(source[site.row + 1].text,
                                                      d.name, site.column)
                              THEN 0
                              ELSE 1
    /\ (pc = "heur.lines" /\ lineNo = 2 /\ source[1].kind = "stmt") =>
        \A j \in 1..Len(source[1].decls) :
            LET name == source[1].decls[j].name
            IN  (~ source[1].decls[j].isInitialized
                     /\ name \in ReadOnlyNames(source[2])) =>
                    /\ ~ scan.globals[MapIndex(scan.globals, name)].isInitialized
                    /\ \E i \in 1..Len(issues) :
                           /\ issues[i].line = 2
                           /\ issues[i].category \in {"Uninitialized", "Wild pointer"}

(***************************************************************************)
(* Claims about the usage loop of the variable detector (SpecVar)          *)
(***************************************************************************)
\* is the occurrence at the site a write: does an assignment operator follow
SiteIsWrite(name, site) ==
    FollowedByAssignment(source[site.row + 1].text, name, site.column)

\* the occurrences of the declaration's name that are not writes and not on
\* the declaration's line
NonWriteSites(d) ==
    { site \in UsageSites(d.name) :
        /\ site.row # d.position.row
        /\ ~ SiteIsWrite(d.name, site) }

\* C20: for a declaration without initializer that checkVariableUsage goes
\* through, every occurrence off the declaration line has exactly one
\* Uninitialized issue if it is not a write, also after an earlier write,
\* and none if it is a write; the Uninitialized issues of the declaration
\* are as many as its non-write occurrences.
C20_OneIssuePerNonWriteOccurrence ==
    (VarAnalyzed /\ ~ CASTParser_parseThrows(source)) =>
        \A k \in UninitializedDeclarations :
            LET d == SourceDeclarations[k]
            IN  /\ \A site \in UsageSites(d.name) :
                       site.row # d.position.row =>
                           IssuesAtSite("usedBeforeInitialization", d.name, site)
                               = IF SiteIsWrite(d.name, site) THEN 0 ELSE 1
                /\ UninitializedIssuesFor(d.name) = Cardinality(NonWriteSites(d))

(***************************************************************************)
(* Claims about the declaration records (checked under Spec)               *)
(***************************************************************************)
\* isInitialized of the declaration after the usage loop has gone through
\* the first j usages of its name
FlagAfter(variable, j) ==
    UsageLoop(P_main, SourceLines(source), variable,
              SubSeq(CASTParser_findVariableUsages(source, variable.name), 1, j), 1,
              [issues |-> << >>, isInitialized |-> variable.isInitialized]).isInitialized

\* the scope tracking of one line: the least number of open scopes while
\* the characters from the k-th on are scanned
RECURSIVE LeastDepth(_, _, _, _)
LeastDepth(raw, k, depth, least) ==
    IF k > Len(raw)
    THEN least
    ELSE IF raw[k] = "{"
    THEN LeastDepth(raw, k + 1, depth + 1, least)
    ELSE IF raw[k] = "}"
    THEN LeastDepth(raw, k + 1, Max2(0, depth - 1), Min2(least, Max2(0, depth - 1)))
    ELSE LeastDepth(raw, k + 1, depth, least)

\* the table of a level of the scan state: 0 for the globals
TableAt(st, level) == IF level = 0 THEN st.globals ELSE st.localsStack[level]

\* the names the line declares, if the scan takes it for a declaration
NamesDeclaredBy(raw) ==
    LET line == WithoutComment(Trim(raw))
    IN  IF IsVisited(raw) /\ isLikelyDecl(line)
        THEN { parseDecl(line)[k].name : k \in 1..Len(parseDecl(line)) }
        ELSE {}

\* the level a declaration of the line goes to, given the state after it
DeclarationLevel(st) ==
    IF st.braceDepth = 0 \/ st.localsStack = << >> THEN 0 ELSE Len(st.localsStack)

\* C21: isInitialized of a declaration record only changes from false to
\* true.  AST analyzer: through the usage loop the flag, once true, stays
\* true, and a declaration that starts initialized is initialized when
\* analyzeFile returns.  Heuristic scanner: over the scan of a line, a record
\* of a scope that stays open and that the line does not declare anew stays
\* initialized if it was.
C21_InitializedNeverReverts ==
    [][/\ (pc = "var.analyzeFile" /\ ~ CASTParser_parseThrows(source)) =>
            \A k \in 1..Len(declarations') :
                LET d == GroupedByScope(SourceDeclarations)[k]
                    n == Len(CASTParser_findVariableUsages(source, d.name))
                IN  /\ d.isInitialized => declarations'[k].isInitialized
                    /\ \A i \in 0..n : \A j \in i..n :
                           FlagAfter(d, i) => FlagAfter(d, j)
       /\ (pc = "heur.lines" /\ lineNo' = lineNo + 1) =>
            LET raw == source[lineNo + 1].text
                kept == IF IsVisited(raw)
                        THEN LeastDepth(raw, 1, Len(scan.localsStack),
                                        Len(scan.localsStack))
                        ELSE Len(scan.localsStack)
            IN  \A level \in 0..kept :
                    \A k \in 1..Len(TableAt(scan, level)) :
                        LET v == TableAt(scan, level)[k]
                        IN  (/\ v.isInitialized
                             /\ ~ (/\ v.name \in NamesDeclaredBy(raw)
                                   /\ level = DeclarationLevel(scan')))
                                => /\ MapHas(TableAt(scan', level), v.name)
                                   /\ TableAt(scan', level)[MapIndex(TableAt(scan', level), v.name)].isInitialized
      ]_vars

\* a record of the heuristic scan that was declared without initializer has
\* become initialized and a later line mentioning it has been scanned
C21_Witness ==
    /\ pc = "heur.lines"
    /\ source = HeurFile_WriteThenRead
    /\ lineNo = 3
    /\ scan.globals[MapIndex(scan.globals, N_x)].isInitialized

(***************************************************************************)
(* Claims about the order of the issues (checked under Spec)               *)
(***************************************************************************)
\* the place of a file in the listing of the directory
FileRank(path) ==
    CHOOSE k \in 1..Len(ListedFiles) : PathJoin(SamplesDir, ListedFiles[k].name) = path

\* the detector an issue of the AST path comes from, in call order
GroupRank(issue) ==
    CASE issue.category \in {"Uninitialized", "NullPointer", "WildPointer"} -> 1
      [] issue.category = "Header" -> 2
      [] issue.category = "HeaderSpelling" -> 3
      [] OTHER -> 4

IsPrefix(s, t) == Len(s) <= Len(t) /\ SubSeq(t, 1, Len(s)) = s

\* the issues of the run that belong to the k-th listed file
IssuesOfListed(k) ==
    SelectSeq(issues, LAMBDA issue : issue.file = PathJoin(SamplesDir, ListedFiles[k].name))

\* the issues are grouped by file in listing order; those of a file the AST
\* path analysed are as many per detector as the detector returns, in the
\* order variable, Header, HeaderSpelling
IssuesInOrder ==
    /\ \A i \in 1..Len(issues) : \A j \in i..Len(issues) :
           FileRank(issues[i].file) <= FileRank(issues[j].file)
    /\ revision \in {"rich", "minimal"} =>
        \A k \in 1..Len(fileLog) :
            fileLog[k].astRan =>
                LET found == IssuesOfListed(k)
                    path == PathJoin(SamplesDir, ListedFiles[k].name)
                    lines == ListedFiles[k].lines
                IN  /\ \A i \in 1..Len(found) : \A j \in i..Len(found) :
                           GroupRank(found[i]) <= GroupRank(found[j])
                    /\ CountIssues(found, LAMBDA issue : GroupRank(issue) = 1)
                           = Len(VarAnalyzeFile(path, lines, << >>).issues)
                    /\ CountIssues(found, LAMBDA issue : GroupRank(issue) = 2)
                           = Len(LibAnalyzeFile(path, lines))
                    /\ CountIssues(found, LAMBDA issue : GroupRank(issue) = 3)
                           = Len(checkHeaderSpelling(path, lines))

\* C22: the files are processed in listing order and the issue list is the
\* concatenation of the per-file lists in that order; within a file of the
\* AST path the variable issues come first, then Header, then
\* HeaderSpelling; a step of the loop over the files or lines only appends.
C22_IssuesInListingOrder ==
    [][/\ pc \in {"cli.files", "heur.files", "heur.lines"} =>
            /\ IsPrefix(issues, issues')
            /\ IsPrefix(fileLog, fileLog')
            /\ \A k \in 1..Len(fileLog') :
                   fileLog'[k].file = PathJoin(SamplesDir, ListedFiles[k].name)
       /\ pc \in {"cli.files", "cli.report", "heur.files", "heur.lines"} =>
            IssuesInOrder
      ]_vars

\* two files analysed on the AST path, the first with issues of all three
\* detectors, the second with issues too
C22_Witness ==
    /\ pc = "cli.report"
    /\ Len(fileLog) = 2
    /\ fileLog[1].astRan /\ fileLog[2].astRan
    /\ {GroupRank(fileLog[1].issues[k]) : k \in 1..Len(fileLog[1].issues)} = {1, 2, 3}
    /\ fileLog[2].issues # << >>
    /\ issues = fileLog[1].issues \o fileLog[2].issues

(***************************************************************************)
(* Claims about the scopes of the heuristic scanner (SpecHeur)             *)
(***************************************************************************)
\* the blocks of the text: the scopes and the names declared in them when
\* every brace counts at its place in the line, so that a declaration
\* belongs to the block that is open where the declaration stands
BlocksAfterLine(st, raw) ==
    LET line == WithoutComment(Trim(raw))
        semi == IndexOf(raw, <<";">>, 0)
    IN  IF ~ IsVisited(raw)
        THEN st
        ELSE IF isLikelyDecl(line) /\ parseDecl(line) # << >>
        THEN TrackBraces(SliceFrom(raw, semi), 1,
                 DeclareAll(TrackBraces(Slice(raw, 0, semi), 1, st),
                            parseDecl(line), 1))
        ELSE FunctionHead(raw, TrackBraces(raw, 1, st))

RECURSIVE BlocksAfter(_, _)
BlocksAfter(lines, n) ==
    IF n = 0
    THEN ScanStart(<< >>)
    ELSE Once(BlocksAfter(lines, n - 1),
              LAMBDA st : BlocksAfterLine(st, lines[n].text))

\* the names of the tables of a scan state
NamesOf(st) == Range(KnownNames(st))

\* C23: getVar finds a name in the innermost open block that declares it,
\* otherwise in an enclosing open block, otherwise among the globals; the
\* declarations of a closed block are not found any more; and a declaration
\* leaves the records of the same name in the other scopes as they are.
C23_LookupByOpenBlocks ==
    [][(pc = "heur.lines" /\ lineNo' = lineNo + 1) =>
          LET blocks == BlocksAfter(source, lineNo + 1)
              before == BlocksAfter(source, lineNo)
              raw == source[lineNo + 1].text
          IN  /\ \A name \in NamesOf(blocks) \cup NamesOf(scan') :
                     LevelOf(scan', name) = LevelOf(blocks, name)
              /\ \A name \in NamesDeclaredBy(raw) :
                     \A level \in 0..Len(scan.localsStack) :
                         (/\ MapHas(TableAt(scan, level), name)
                          /\ level <= Len(blocks.localsStack)
                          /\ level <= LeastDepth(raw, 1, Len(scan.localsStack),
                                                 Len(scan.localsStack))
                          /\ ~ (MapHas(TableAt(blocks, level), name)
                                /\ ~ MapHas(TableAt(before, level), name)))
                             => /\ level <= Len(scan'.localsStack)
                                /\ MapHas(TableAt(scan', level), name)
                                /\ TableAt(scan', level)[MapIndex(TableAt(scan', level), name)]
                                       = TableAt(scan, level)[MapIndex(TableAt(scan, level), name)]
      ]_vars

(***************************************************************************)
(* Claims about function parameters in the heuristic scanner (SpecHeur)    *)
(***************************************************************************)
\* the number of open blocks of the text after its first m lines
DepthAfter(m) == BlocksAfter(source, m).braceDepth

\* the lines that open a function body with the brace at the end of the
\* signature line and have parameters
SignatureLines(n) ==
    { h \in 1..n : /\ source[h].kind = "fn_open"
                   /\ EndsWith(Trim(source[h].text), <<"{">>)
                   /\ source[h].decls # << >> }

ParametersOf(h) == { source[h].decls[k].name : k \in 1..Len(source[h].decls) }

\* line l is the signature line h or a line of its body
InBodyOf(h, l) == l >= h /\ \A m \in h..l : DepthAfter(m) >= DepthAfter(h)

\* line l holds the brace that closes the body opened at line h
ClosesBodyOf(h, l) == l > h /\ InBodyOf(h, l - 1) /\ DepthAfter(l) < DepthAfter(h)

\* the names declared by the file outside the signature lines
DeclaredVariables ==
    UNION { { source[i].decls[k].name : k \in 1..Len(source[i].decls) } :
            i \in { j \in 1..Len(source) : source[j].kind # "fn_open" } }

\* the line mentions a parameter of h and besides parameters only names the
\* file does not declare
MentionsOnlyParameters(h, l) ==
    LET names == { source[l].idents[k].name : k \in 1..Len(source[l].idents) }
    IN  /\ names \cap ParametersOf(h) # {}
        /\ (names \ ParametersOf(h)) \cap DeclaredVariables = {}

\* C24: while the body of a function whose signature line ends in { is
\* scanned, each of its parameters is found in a block scope as initialized
\* and no line of the body that uses a parameter has an Uninitialized or
\* Wild pointer issue; after the closing brace of the body the parameters
\* are not found in the body's scope any more.
C24_ParametersPreInitialized ==
    (pc = "heur.lines" /\ lineNo >= 1) =>
        \A h \in SignatureLines(lineNo) :
            /\ InBodyOf(h, lineNo) =>
                   \A name \in ParametersOf(h) :
                       /\ LevelOf(scan, name) >= DepthAfter(h)
                       /\ getVar(scan, name)[1].isInitialized
            /\ \A l \in (h + 1)..lineNo :
                   (InBodyOf(h, l) /\ MentionsOnlyParameters(h, l)) =>
                       CountIssues(issues,
                           LAMBDA issue : /\ issue.line = l
                                          /\ issue.category \in {"Uninitialized", "Wild pointer"}) = 0
            /\ ClosesBodyOf(h, lineNo) =>
                   \A name \in ParametersOf(h) : LevelOf(scan, name) < DepthAfter(h)

(***************************************************************************)
(* Claims about scanf in the heuristic scanner (SpecHeur)                  *)
(***************************************************************************)
\* the argument at the column is an address-of expression: & stands before
\* the name
IsAddressOf(text, column) == column >= 1 /\ text[column] = "&"

\* a line before line l declares the name as an array of char
IsCharArray(name, l) ==
    \E i \in 1..(l - 1) :
        Test(Cat(<<WordB, Lit(<<"c","h","a","r">>), Plus(ReSpace), Lit(name),
                   Star(ReSpace), Lit(<<"[">>)>>),
             source[i].text)

\* the arguments of the scanf call of line l for which an address is asked
ArgumentsWithoutAddress(l) ==
    { k \in 1..Len(source[l].idents) :
        /\ ~ IsAddressOf(source[l].text, source[l].idents[k].column)
        /\ ~ IsCharArray(source[l].idents[k].name, l) }

\* C25: a scanf call has exactly one Format issue asking for an address per
\* argument after the format that is not an address-of expression and does
\* not name a character array; arguments that start with & yield none.
C25_ScanfAddressPerArgument ==
    pc = "heur.lines" =>
        \A l \in 1..lineNo :
            (/\ source[l].format # << >>
             /\ source[l].format[1].fn = "scanf"
             /\ Len(source[l].idents) = source[l].format[1].arguments) =>
                CountIssues(issues,
                    LAMBDA issue : /\ issue.line = l
                                   /\ issue.category = "Format"
                                   /\ issue.message.kind = "scanfNeedsAddress")
                    = Cardinality(ArgumentsWithoutAddress(l))

(***************************************************************************)
(* Claims about exceptions inside a detector (SpecLib)                     *)
(***************************************************************************)
\* analyzeFile of the library detector raises an exception on the file: the
\* parser rejects it, or a call's name makes the table lookup yield a value
\* that has no method some
LibraryDetectorThrows ==
    \/ CASTParser_parseThrows(source)
    \/ \E i \in 1..Len(source) : \E c \in 1..Len(source[i].calls) :
           source[i].calls[c].name \in ObjectPrototypeNames

\* the system includes of the file that are not in the whitelist
MisspelledIncludes ==
    { i \in 1..Len(source) :
        \E c \in 1..Len(source[i].incl) :
            /\ source[i].incl[c].isSystemHeader
            /\ source[i].incl[c].headerName \notin Range(standardHeaders) }

\* C26: an exception inside a detector does not reach the caller; the
\* detector's contribution for the file is then empty, with no part of the
\* list it had built, and the other detector's issues are still reported.
C26_DetectorExceptionContained ==
    /\ (LibAnalyzed /\ LibraryDetectorThrows) => libraryIssues = << >>
    /\ (LibSpellChecked /\ LibraryDetectorThrows /\ ~ CASTParser_parseThrows(source)) =>
           \A i \in MisspelledIncludes :
               \E k \in 1..Len(headerSpellingIssues) : headerSpellingIssues[k].line = i

\* the lines after the last closing brace of a struct body that declare a
\* scalar without initializer
DeclarationsAfterStruct ==
    { i \in 1..Len(source) :
        /\ \E j \in 1..(i - 1) : source[j].kind = "struct_close"
        /\ StructDepthAt(source, i) = 0
        /\ source[i].kind = "stmt"
        /\ \E k \in 1..Len(source[i].decls) : ~ source[i].decls[k].isInitialized }

\* the struct definition begins with struct ... { or typedef struct ... {
OpensOnStructLine ==
    source[1].kind = "struct_open" /\ EndsWith(source[1].text, <<"{">>)

\* C27: the struct context of a struct ... { or typedef struct ... { line
\* ends at the brace that closes the struct body, so a scalar declared
\* without initializer in a function after the struct definition has its
\* Uninitialized issue.
C27_StructContextEnds ==
    (pc = "text.done" /\ revision = "rich" /\ OpensOnStructLine) =>
        \A i \in DeclarationsAfterStruct :
            \E k \in 1..Len(issues) :
                issues[k].category = "Uninitialized" /\ issues[k].line = i

(***************************************************************************)
(* Claims about uses before the first assignment in the heuristic scanner  *)
(* (SpecHeur)                                                              *)
(***************************************************************************)
\* the declarations of the scanned file: <<line, index>>
FileDeclarations ==
    { d \in (1..Len(source)) \X (1..3) : d[2] <= Len(source[d[1]].decls) }

DeclarationOf(d) == source[d[1]].decls[d[2]]

\* every line is a statement outside of all blocks and no name is declared
\* twice: each declaration is a global that stays visible to the end
OnlyGlobalsDeclaredOnce ==
    /\ \A l \in 1..Len(source) : source[l].kind = "stmt" /\ DepthAfter(l) = 0
    /\ \A d, e \in FileDeclarations :
           DeclarationOf(d).name = DeclarationOf(e).name => d = e

\* the 0-based columns of line l at which the name stands as an identifier
NameColumns(name, l) ==
    { c \in 0..Len(source[l].text) :
        /\ OccursAt(source[l].text, name, c)
        /\ ~ IsWordAt(source[l].text, c)
        /\ ~ IsWordAt(source[l].text, c + Len(name) + 1) }

\* line l mentions the name
MentionedAt(name, l) == NameColumns(name, l) # {}

\* line l assigns to the name
AssignedAt(name, l) ==
    \E c \in NameColumns(name, l) : FollowedByAssignment(source[l].text, name, c)

\* line l uses the name in a dereference form
DereferencedAt(name, l) ==
    \E k \in 1..Len(source[l].derefs) : source[l].derefs[k].name = name

\* the declarations without initializer that line l mentions while no line
\* after the declaration up to l assigns to the name
UsedBeforeAssignment(l) ==
    { d \in FileDeclarations :
        /\ d[1] < l
        /\ ~ DeclarationOf(d).isInitialized
        /\ MentionedAt(DeclarationOf(d).name, l)
        /\ \A m \in (d[1] + 1)..l : ~ AssignedAt(DeclarationOf(d).name, m) }

WildAt(l) ==
    { d \in UsedBeforeAssignment(l) :
        DeclarationOf(d).isPointer /\ DereferencedAt(DeclarationOf(d).name, l) }

\* C28: a variable declared without initializer yields an issue on every
\* later line that mentions it, Wild pointer for a pointer in a dereference
\* form and Uninitialized otherwise, until a line assigns to it; from the
\* first assigning line on no line yields an issue for the declaration.
C28_IssueOnEveryUseUntilAssigned ==
    (pc = "heur.lines" /\ Len(fileLog) = 0 /\ lineNo >= 1 /\ OnlyGlobalsDeclaredOnce) =>
        /\ CountIssues(issues, LAMBDA issue : /\ issue.line = lineNo
                                              /\ issue.category = "Wild pointer")
               = Cardinality(WildAt(lineNo))
        /\ CountIssues(issues, LAMBDA issue : /\ issue.line = lineNo
                                              /\ issue.category = "Uninitialized")
               = Cardinality(UsedBeforeAssignment(lineNo) \ WildAt(lineNo))

(***************************************************************************)
(* Claims about the edit distance (SpecLib)                                *)
(***************************************************************************)
\* can a be turned into b by at most k insertions, deletions and
\* substitutions of single characters
RECURSIVE EditWithin(_, _, _)
EditWithin(a, b, k) ==
    IF k < 0
    THEN FALSE
    ELSE IF a = << >>
    THEN Len(b) <= k
    ELSE IF b = << >>
    THEN Len(a) <= k
    ELSE \/ EditWithin(Tail(a), Tail(b), IF Head(a) = Head(b) THEN k ELSE k - 1)
         \/ EditWithin(Tail(a), b, k - 1)
         \/ EditWithin(a, Tail(b), k - 1)

\* the least number of edits between a and b
EditDistance(a, b) ==
    CHOOSE k \in 0..(Len(a) + Len(b)) :
        EditWithin(a, b, k) /\ ~ EditWithin(a, b, k - 1)

MaxWord == 3

\* all strings over two characters up to MaxWord characters, the empty one
\* included
Words == {<< >>} \cup SeqsUpTo({"a", "b"}, MaxWord)

\* levenshteinDistance is the edit distance on Words, with the properties of
\* a distance
EditDistanceOnWords ==
    \A a \in Words : \A b \in Words :
        LET d == levenshteinDistance(a, b)
        IN  /\ d = EditDistance(a, b)
            /\ (d = 0) <=> (a = b)
            /\ d = levenshteinDistance(b, a)
            /\ d >= Len(a) - Len(b)
            /\ d >= Len(b) - Len(a)

\* every include that checkHeaderSpelling reports has a suggestion exactly
\* when Form of its name is within two edits of Form of a whitelist entry
SuggestionClaim(Form(_)) ==
    LibSpellChecked =>
        \A i \in 1..Len(source) : \A c \in 1..Len(source[i].incl) :
            \A k \in SpellIssuesOfInclude(i, c) :
                (headerSpellingIssues[k].message.headers # << >>)
                    <=> \E h \in 1..Len(standardHeaders) :
                            EditWithin(Form(source[i].incl[c].headerName),
                                       Form(standardHeaders[h]), 2)

AsWritten(name) == name

\* C29 as stated: levenshteinDistance is the true edit distance, 0 iff the
\* strings are equal, symmetric and at least the difference of the lengths;
\* a header within two edits of a whitelist entry receives a suggestion and
\* a header three or more edits from every entry receives none.
C29_SuggestionIffWithinTwoEdits ==
    EditDistanceOnWords /\ SuggestionClaim(AsWritten)

\* C29 amended: the same, with the edits counted between the lower-cased
\* header name and the lower-cased whitelist entries.
C29_SuggestionIffLowerCaseWithinTwoEdits ==
    EditDistanceOnWords /\ SuggestionClaim(ToLowerCase)

\* stdoi.h, two edits from stdio.h, was given a suggestion, and graphics.h,
\* more than two edits from every entry, was reported without one
C29_Witness ==
    /\ LibSpellChecked
    /\ \E k \in 1..Len(headerSpellingIssues) :
            /\ headerSpellingIssues[k].message.name = H_stdoi
            /\ headerSpellingIssues[k].message.headers = <<H_stdio>>
            /\ levenshteinDistance(H_stdoi, H_stdio) = 2
    /\ \E k \in 1..Len(headerSpellingIssues) :
            /\ headerSpellingIssues[k].message.name = H_graphics
            /\ headerSpellingIssues[k].message.headers = << >>

(***************************************************************************)
(* Claims about the scope stacks of the heuristic scanner (SpecHeur)       *)
(***************************************************************************)
\* the three scope counters of a scan state agree and are not negative
ScopesAgree(st) ==
    /\ st.braceDepth >= 0
    /\ Len(st.localsStack) = st.braceDepth
    /\ Len(st.funcStack) = st.braceDepth

\* the scan state after the first k characters of the raw line
AfterCharacters(raw, k) == TrackBraces(SubSeq(raw, 1, k), 1, scan)

\* C30: after every scanned brace character the length of localsStack, the
\* length of funcStack and braceDepth are equal and not negative; a closing
\* brace scanned with no open scope leaves all three at zero; and a
\* declaration recorded while braceDepth is zero is in the global table,
\* with no block scope open.
C30_ScopesMatchBraceDepth ==
    [][(pc = "heur.lines" /\ lineNo' = lineNo + 1) =>
          LET raw == source[lineNo + 1].text
          IN  /\ IsVisited(raw) =>
                     \A k \in 1..Len(raw) :
                         /\ ScopesAgree(AfterCharacters(raw, k))
                         /\ (raw[k] = "}" /\ AfterCharacters(raw, k - 1).braceDepth = 0)
                                => /\ AfterCharacters(raw, k).braceDepth = 0
                                   /\ AfterCharacters(raw, k).localsStack = << >>
                                   /\ AfterCharacters(raw, k).funcStack = << >>
              /\ ScopesAgree(scan')
              /\ scan'.braceDepth = 0 =>
                     /\ scan'.localsStack = << >>
                     /\ \A name \in NamesDeclaredBy(raw) : MapHas(scan'.globals, name)
      ]_vars

\* a closing brace was scanned with no open scope and the declaration of the
\* next line went to the global table
C30_Witness ==
    /\ pc = "heur.lines"
    /\ lineNo = 2
    /\ source = <<V_close, V_decl_x>>
    /\ scan.braceDepth = 0
    /\ scan.localsStack = << >>
    /\ scan.funcStack = << >>
    /\ MapHas(scan.globals, N_x)

=============================================================================
